---- MODULE Spec2Model ----
(***************************************************************************)
(* SSA construction of the decompiler's CFG-IR                             *)
(* (cfg-ir/src/ssa/construct.rs): phi insertion, renaming (split_values),  *)
(* iterated phi pruning and copy elision, as one state machine over small  *)
(* input functions (Spec); the restructurer's fixpoint of rule matching    *)
(* (restructure/src/lib.rs, SpecStructure), its post_dominators            *)
(* (SpecPostDominators), the CFG to AST lifter                             *)
(* (cfg-to-ast/src/lifter.rs, SpecLift), the open-upvalue analysis         *)
(* (cfg/src/ssa/upvalues.rs, SpecUpvalues) and the Lua 5.1 instruction     *)
(* parser (lua51-deserializer/src/instruction/mod.rs, SpecParse).          *)
(***************************************************************************)
EXTENDS Integers, Sequences, FiniteSets, TLC

\* ------------------------------------------------------------------ bounds
\* number of pre-SSA values (registers) an input function may mention
NumVals == 3
\* total number of inner instructions of an input function
MaxInstrs == 2
\* number of blocks of a function given to the restructurer, the lifter or
\* the upvalue analysis
MaxNodes == 3
\* total number of statements of a function given to the upvalue analysis
MaxStatements == 2

\* ------------------------------------------------------------ input graphs
\* The control-flow graphs of the input functions: `entry` is the entry
\* block (0: the function has none), `ret` is the block that ends in Return
\* (0: the function never returns).
Line == [n |-> 2, entry |-> 1, ret |-> 2, succ |-> <<{2}, {}>>]

Diamond == [n |-> 4, entry |-> 1, ret |-> 4, succ |-> <<{2, 3}, {4}, {4}, {}>>]

Loop == [n |-> 4, entry |-> 1, ret |-> 4, succ |-> <<{2}, {3, 4}, {2}, {}>>]

NestedLoop == [n |-> 4, entry |-> 1, ret |-> 0, succ |-> <<{2}, {3}, {4, 2}, {3}>>]

EntryLoop == [n |-> 3, entry |-> 1, ret |-> 3, succ |-> <<{2, 3}, {1}, {}>>]

Shapes == {Line, Diamond, Loop, NestedLoop, EntryLoop}

\* a function whose entry was never set
Unentered == [n |-> 2, entry |-> 0, ret |-> 2, succ |-> <<{2}, {}>>]

VARIABLES
    graph,                   \* function.graph(): one of Shapes
    input,                   \* the blocks construct was called with
    blocks,                  \* function.blocks(): node -> [phi, inner, term]
    next_value,              \* the Function's ValueId allocator
    pc,                      \* position inside construct
    immediate_dominators,    \* construct.rs:34
    dominance_frontiers,     \* construct.rs:39-44
    node_to_values_written,  \* construct.rs:49
    value_written_to_nodes,  \* construct.rs:50
    value_to_nodes_with_phi, \* construct.rs:78
    visited,                 \* split_values: visited
    stack,                   \* split_values: stack of <<node, value_stacks>>
    stacks_in,               \* value_stacks a block was rewritten with
    stacks_out,              \* value_stacks at the end of a rewritten block
    rewrites,                \* how many times each block was rewritten
    passes,                  \* iterations of the pruning loop so far
    snapshot,                \* function.blocks().clone() of copy elision
    elided,                  \* blocks copy elision has gone through
    deleted,                 \* dests of the Moves copy elision deleted
    substituted              \* the <<old, new>> pruning has substituted

\* state of the restructurer (GraphStructurer), of post_dominators and of the
\* CFG to AST lifter (Lifter::lift); pc, graph, blocks, stack and visited
\* above are theirs too where the source has a value of that name
VARIABLES
    function,                \* self.function: graph and block contents
    root,                    \* GraphStructurer.root / the root of Lifter::lift
    loop_headers,            \* destinations of the back edges
    dominators,              \* simple_fast(...): node -> immediate dominator
    dfs_postorder,           \* DfsPostOrder: [stack, discovered, finished]
    changed,                 \* match_blocks: changed
    tried,                   \* per visit of the sweep: node, rules tried, fired
    sweeps,                  \* calls of match_blocks so far
    result,                  \* the block structure() returns
    post_dom_tree,           \* lifter.rs:178: node -> immediate post-dominator
    loop_exits,              \* lifter.rs:180
    stops,                   \* lifter.rs:194
    links                    \* lifter.rs:190: node -> Link

\* state of the upvalue analysis (UpvaluesOpen) and of the instruction parser
VARIABLES
    open,                    \* upvalues.rs:27: node -> set of <<local, <<node, index>>>>
    old_locals,              \* upvalues.rs:28: local -> its pre-SSA original
    raw                      \* mod.rs:17: the RawInstruction: operation code and layout

analyses_vars == <<open, old_locals, raw>>

\* the variables SSA construction alone uses
construct_vars == <<input, next_value, immediate_dominators,
                    dominance_frontiers, node_to_values_written,
                    value_written_to_nodes, value_to_nodes_with_phi, stacks_in,
                    stacks_out, rewrites, passes, snapshot, elided, deleted,
                    substituted>>

\* the variables SSA construction does not use
later_vars == <<function, root, loop_headers, dominators, dfs_postorder,
                changed, tried, sweeps, result, post_dom_tree, loop_exits,
                stops, links, analyses_vars>>

vars == <<graph, input, blocks, next_value, pc, immediate_dominators,
          dominance_frontiers, node_to_values_written, value_written_to_nodes,
          value_to_nodes_with_phi, visited, stack, stacks_in, stacks_out,
          rewrites, passes, snapshot, elided, deleted, substituted,
          later_vars>>

\* the value of a variable the running program does not have
Unused == <<>>

\* ------------------------------------------------------------------ graph
Nodes(g) == 1..g.n

\* Function::entry(): None is 0
Entry(g) == g.entry

Successors(g, n) == g.succ[n]

Predecessors(g, n) == {p \in Nodes(g) : n \in g.succ[p]}

\* nodes reachable from the entry along paths that avoid node d
RECURSIVE ReachAvoiding(_, _, _)
ReachAvoiding(g, d, seen) ==
    LET more == {s \in Nodes(g) : s # d /\ \E p \in seen : s \in g.succ[p]}
    IN  IF more \subseteq seen THEN seen ELSE ReachAvoiding(g, d, seen \cup more)

Reachable(g) == ReachAvoiding(g, 0, {Entry(g)})

\* d dominates n: every path from the entry to n goes through d
Dominates(g, d, n) ==
    /\ n \in Reachable(g)
    /\ \/ d = n
       \/ d = Entry(g)
       \/ n \notin ReachAvoiding(g, d, {Entry(g)})

StrictlyDominates(g, d, n) == d # n /\ Dominates(g, d, n)

\* compute_immediate_dominators: the nearest strict dominator of every
\* reachable node but the entry
ComputeImmediateDominators(g) ==
    [n \in Reachable(g) \ {Entry(g)} |->
        CHOOSE d \in Nodes(g) :
            /\ StrictlyDominates(g, d, n)
            /\ \A e \in Nodes(g) : StrictlyDominates(g, e, n) => Dominates(g, e, d)]

\* compute_dominance_frontiers: DF(b) = the nodes x such that b dominates a
\* predecessor of x and does not strictly dominate x
ComputeDominanceFrontiers(g) ==
    [b \in Reachable(g) |->
        {x \in Reachable(g) :
            /\ \E p \in Predecessors(g, x) : Dominates(g, b, p)
            /\ ~StrictlyDominates(g, b, x)}]

\* the three results for each input graph, worked out once
ImmediateDominatorsOf == [g \in Shapes |-> ComputeImmediateDominators(g)]

DominanceFrontiersOf == [g \in Shapes |-> ComputeDominanceFrontiers(g)]

ReachableOf == [g \in Shapes |-> Reachable(g)]

\* dominator_tree(graph, idoms).successors(node)
DominatorTreeSuccessors(idom, n) == {c \in DOMAIN idom : idom[c] = n}

\* dominance read off the immediate-dominator map
RECURSIVE IdomDominates(_, _, _)
IdomDominates(idom, d, n) ==
    \/ d = n
    \/ n \in DOMAIN idom /\ IdomDominates(idom, d, idom[n])

\* ----------------------------------------------------------- instructions
\* An instruction is [kind, w, r]: the values it writes and reads, in operand
\* order.  Inner instructions also carry `id`, their index in the input block.
OrigValues == 1..NumVals

InnerKinds ==
    {[kind |-> "Op", w |-> <<v>>, r |-> <<>>] : v \in OrigValues}
    \cup {[kind |-> "Op", w |-> <<>>, r |-> <<v>>] : v \in OrigValues}
    \cup {[kind |-> "Move", w |-> <<d>>, r |-> <<s>>] :
             <<d, s>> \in {x \in OrigValues \X OrigValues : x[1] # x[2]}}

\* Inner instructions of a whole function as one list of <<node, kind>>,
\* block after block.
Placements(g) ==
    UNION {{pl \in [1..m -> Nodes(g) \X InnerKinds] :
               \A i \in 1..m : \A j \in 1..m : i < j => pl[i][1] <= pl[j][1]} :
           m \in 0..MaxInstrs}

InnerOf(pl, n) ==
    LET at == SelectSeq(pl, LAMBDA e : e[1] = n)
    IN  [i \in 1..Len(at) |->
            [kind |-> at[i][2].kind, w |-> at[i][2].w, r |-> at[i][2].r, id |-> i]]

\* The terminator of block n: Return reads rv (0: returns nothing), a
\* conditional jump reads its condition, value 0, which no instruction writes.
TerminatorOf(g, n, rv) ==
    IF n = g.ret THEN [kind |-> "Return", w |-> <<>>,
                       r |-> IF rv = 0 THEN <<>> ELSE <<rv>>]
    ELSE IF Cardinality(g.succ[n]) = 2
         THEN [kind |-> "ConditionalJump", w |-> <<>>, r |-> <<0>>]
         ELSE [kind |-> "UnconditionalJump", w |-> <<>>, r |-> <<>>]

RetValues(g) == IF g.ret = 0 THEN {0} ELSE {0} \cup OrigValues

\* the values an input mentions, in the order it mentions them
RECURSIVE Mentions(_, _)
Mentions(pl, rv) ==
    IF pl = <<>> THEN (IF rv = 0 THEN <<>> ELSE <<rv>>)
    ELSE Head(pl)[2].w \o Head(pl)[2].r \o Mentions(Tail(pl), rv)

\* Inputs are taken up to a renaming of the pre-SSA values: the values are
\* numbered in the order of their first mention.
FirstMentionsInOrder(m) ==
    \A j \in DOMAIN m : m[j] = 1 \/ \E i \in 1..(j - 1) : m[i] + 1 >= m[j]

InputBlocks(g) ==
    {[n \in Nodes(g) |->
        [phi |-> <<>>, inner |-> InnerOf(x[1], n),
         term |-> TerminatorOf(g, n, x[2])]] :
     x \in {y \in Placements(g) \X RetValues(g) :
               FirstMentionsInOrder(Mentions(y[1], y[2]))}}

\* ------------------------------------------------------------ value access
Range(s) == {s[i] : i \in DOMAIN s}

\* Phi::values_read / values_written
PhiReads(phi) == {phi.inc[p] : p \in DOMAIN phi.inc}

\* BasicBlock::indices(): the phis, then the inner instructions, then the
\* terminator
Indices(b) ==
    [i \in 1..Len(b.phi) |-> <<"Phi", i>>]
    \o [i \in 1..Len(b.inner) |-> <<"Inner", i>>]
    \o << <<"Terminator", 0>> >>

\* values read / written by the instruction at an index of a block
ReadsAt(b, ix) ==
    IF ix[1] = "Phi" THEN PhiReads(b.phi[ix[2]])
    ELSE IF ix[1] = "Inner" THEN Range(b.inner[ix[2]].r)
    ELSE Range(b.term.r)

WritesAt(b, ix) ==
    IF ix[1] = "Phi" THEN {b.phi[ix[2]].dest}
    ELSE IF ix[1] = "Inner" THEN Range(b.inner[ix[2]].w)
    ELSE Range(b.term.w)

\* InstructionLocation: <<node, index>>
Locations(blks) ==
    UNION {{<<n, ix>> : ix \in Range(Indices(blks[n]))} : n \in DOMAIN blks}

\* DefUse: the locations that read / write a value
DefUseReads(blks, v) == {l \in Locations(blks) : v \in ReadsAt(blks[l[1]], l[2])}

DefUseWrites(blks, v) == {l \in Locations(blks) : v \in WritesAt(blks[l[1]], l[2])}

\* replace_values_read(old, new) on one operand list / one phi
ReplaceIn(r, old, new) == [i \in DOMAIN r |-> IF r[i] = old THEN new ELSE r[i]]

ReplacePhi(phi, old, new) ==
    [phi EXCEPT !.inc = [p \in DOMAIN phi.inc |->
                            IF phi.inc[p] = old THEN new ELSE phi.inc[p]]]

\* replace_values_read(old, new) on every instruction of a block
ReplaceBlock(b, old, new) ==
    [phi |-> [i \in DOMAIN b.phi |-> ReplacePhi(b.phi[i], old, new)],
     inner |-> [i \in DOMAIN b.inner |->
                   [b.inner[i] EXCEPT !.r = ReplaceIn(b.inner[i].r, old, new)]],
     term |-> [b.term EXCEPT !.r = ReplaceIn(b.term.r, old, new)]]

\* ------------------------------------------------------------------- Init
\* SSA construction has none of the later phases' state
AnalysesUnused ==
    /\ open = Unused
    /\ old_locals = Unused
    /\ raw = Unused

LaterUnused ==
    /\ AnalysesUnused
    /\ function = Unused
    /\ root = Unused
    /\ loop_headers = Unused
    /\ dominators = Unused
    /\ dfs_postorder = Unused
    /\ changed = Unused
    /\ tried = Unused
    /\ sweeps = Unused
    /\ result = Unused
    /\ post_dom_tree = Unused
    /\ loop_exits = Unused
    /\ stops = Unused
    /\ links = Unused

Init ==
    /\ graph \in Shapes \cup {Unentered}
    /\ input \in InputBlocks(graph)
    /\ blocks = input
    /\ next_value = NumVals + 1
    /\ pc = "start"
    /\ immediate_dominators = <<>>
    /\ dominance_frontiers = <<>>
    /\ node_to_values_written = <<>>
    /\ value_written_to_nodes = <<>>
    /\ value_to_nodes_with_phi = <<>>
    /\ visited = {}
    /\ stack = <<>>
    /\ stacks_in = <<>>
    /\ stacks_out = <<>>
    /\ rewrites = [n \in Nodes(graph) |-> 0]
    /\ passes = 0
    /\ snapshot = <<>>
    /\ elided = {}
    /\ deleted = {}
    /\ substituted = {}
    /\ LaterUnused

\* ------------------------------------------- dominance, values written
\* values written by the phi and inner instructions of a block, one entry
\* per written operand (construct.rs:53-64)
ValuesWritten(b) ==
    LET RECURSIVE Flat(_)
        Flat(s) == IF s = <<>> THEN <<>> ELSE Head(s).w \o Flat(Tail(s))
    IN  [i \in 1..Len(b.phi) |-> b.phi[i].dest] \o Flat(b.inner)

\* value_written_to_nodes: each written value -> the nodes that write it,
\* one entry per write, over the nodes that have a dominance frontier
RECURSIVE WrittenToNodes(_, _, _, _)
WrittenToNodes(blks, df, v, n) ==
    IF n > Len(blks) THEN <<>>
    ELSE (IF n \in DOMAIN df
          THEN SelectSeq([i \in 1..Len(ValuesWritten(blks[n])) |->
                            IF ValuesWritten(blks[n])[i] = v THEN n ELSE 0],
                         LAMBDA x : x # 0)
          ELSE <<>>) \o WrittenToNodes(blks, df, v, n + 1)

\* construct.rs:29-76: entry, immediate dominators, non-empty dominance
\* frontiers, and the two maps of written values
\* a variant of NoEntry that allocates a value before it gives up
NoEntryAfterAllocation ==
    /\ pc = "start"
    /\ Entry(graph) = 0
    /\ pc' = "error"
    /\ next_value' = next_value + 1
    /\ UNCHANGED <<later_vars, graph, input, blocks, immediate_dominators,
                   dominance_frontiers, node_to_values_written,
                   value_written_to_nodes, value_to_nodes_with_phi, visited,
                   stack, stacks_in, stacks_out, rewrites, passes, snapshot,
                   elided, deleted, substituted>>

\* construct.rs:29-31: a function without an entry makes construct return
\* Err(Error::Graph(NoEntry)) before anything else is done
NoEntry ==
    /\ pc = "start"
    /\ Entry(graph) = 0
    /\ pc' = "error"
    /\ UNCHANGED <<later_vars, graph, input, blocks, next_value, immediate_dominators,
                   dominance_frontiers, node_to_values_written,
                   value_written_to_nodes, value_to_nodes_with_phi, visited,
                   stack, stacks_in, stacks_out, rewrites, passes, snapshot,
                   elided, deleted, substituted>>

Start ==
    /\ pc = "start"
    /\ Entry(graph) # 0
    /\ LET idom == ImmediateDominatorsOf[graph]
           all == DominanceFrontiersOf[graph]
           df == [b \in {x \in DOMAIN all : all[x] # {}} |-> all[b]]
           written == UNION {Range(ValuesWritten(blocks[n])) : n \in DOMAIN df}
       IN  /\ immediate_dominators' = idom
           /\ dominance_frontiers' = df
           /\ node_to_values_written' =
                  [n \in DOMAIN df |-> Range(ValuesWritten(blocks[n]))]
           /\ value_written_to_nodes' =
                  [v \in written |-> WrittenToNodes(blocks, df, v, 1)]
    /\ pc' = "insert"
    /\ UNCHANGED <<later_vars, graph, input, blocks, next_value, value_to_nodes_with_phi,
                   visited, stack, stacks_in, stacks_out, rewrites, passes,
                   snapshot, elided, deleted,
                   substituted>>

\* --------------------------------------------------------- phi insertion
\* a variant of PhiIncomingValues that maps every node of the graph
PhiIncomingFromAllNodes(g, f, value) == [p \in Nodes(g) |-> value]

\* construct.rs:88-92: every predecessor of the frontier node maps to value
PhiIncomingValues(g, f, value) == [p \in Predecessors(g, f) |-> value]

\* a variant of PushesFrontier with the test the wrong way round
PushesFrontierIfWritten(ntvw, f, value) == f \in DOMAIN ntvw /\ value \in ntvw[f]

\* construct.rs:103-106: the frontier node joins the work list unless it is
\* recorded as writing the value itself
PushesFrontier(ntvw, f, value) == ~(f \in DOMAIN ntvw /\ value \in ntvw[f])

\* construct.rs:86-108: one pass over the frontiers of a popped node; st is
\* [nodes, with_phi, blocks], todo the frontier nodes not yet looked at
RECURSIVE OverFrontiers(_, _, _, _, _)
OverFrontiers(g, ntvw, value, todo, st) ==
    IF todo = {} THEN st
    ELSE LET f == CHOOSE x \in todo : \A y \in todo : x <= y
             rest == todo \ {f}
         IN  IF f \in st.with_phi
             THEN OverFrontiers(g, ntvw, value, rest, st)
             ELSE OverFrontiers(g, ntvw, value, rest,
                    [nodes |-> IF PushesFrontier(ntvw, f, value)
                               THEN Append(st.nodes, f) ELSE st.nodes,
                     with_phi |-> st.with_phi \cup {f},
                     blocks |-> [st.blocks EXCEPT ![f].phi =
                                    Append(@, [dest |-> value,
                                               inc |-> PhiIncomingValues(g, f, value)])]])

\* construct.rs:80-110: `while let Some(node) = nodes.pop()`
RECURSIVE PhiWorkList(_, _, _, _, _)
PhiWorkList(g, df, ntvw, value, st) ==
    IF st.nodes = <<>> THEN st
    ELSE LET node == st.nodes[Len(st.nodes)]
             popped == [st EXCEPT !.nodes = SubSeq(@, 1, Len(@) - 1)]
         IN  PhiWorkList(g, df, ntvw, value,
                IF node \in DOMAIN df
                THEN OverFrontiers(g, ntvw, value, df[node], popped)
                ELSE popped)

\* construct.rs:79-111, one iteration of the loop over value_written_to_nodes
\* (a hash map: the values come in any order)
InsertPhis(value) ==
    /\ pc = "insert"
    /\ value \in DOMAIN value_written_to_nodes
    /\ value \notin DOMAIN value_to_nodes_with_phi
    /\ LET st == PhiWorkList(graph, dominance_frontiers, node_to_values_written,
                             value,
                             [nodes |-> value_written_to_nodes[value],
                              with_phi |-> {}, blocks |-> blocks])
       IN  /\ blocks' = st.blocks
           /\ value_to_nodes_with_phi' =
                  (value :> st.with_phi) @@ value_to_nodes_with_phi
    /\ UNCHANGED <<later_vars, graph, input, next_value, pc, immediate_dominators,
                   dominance_frontiers, node_to_values_written,
                   value_written_to_nodes, visited, stack, stacks_in, stacks_out,
                   rewrites, passes, snapshot, elided, deleted,
                   substituted>>

\* construct.rs:115-117, 198-202: split_values starts at the entry with no
\* value stacks
BeginSplit ==
    /\ pc = "insert"
    /\ DOMAIN value_written_to_nodes \subseteq DOMAIN value_to_nodes_with_phi
    /\ pc' = "split"
    /\ visited' = {}
    /\ stack' = << <<Entry(graph), <<>> >> >>
    /\ UNCHANGED <<later_vars, graph, input, blocks, next_value, immediate_dominators,
                   dominance_frontiers, node_to_values_written,
                   value_written_to_nodes, value_to_nodes_with_phi, stacks_in,
                   stacks_out, rewrites, passes, snapshot, elided, deleted,
                   substituted>>

\* ----------------------------------------------------------- split_values
\* value_stacks is a map from a pre-SSA value to the stack of its names.

\* construct.rs:129-136: a read of a value that has a stack becomes the top
\* of that stack
RewriteReads(r, value_stacks) ==
    [i \in DOMAIN r |->
        IF r[i] \in DOMAIN value_stacks
        THEN value_stacks[r[i]][Len(value_stacks[r[i]])]
        ELSE r[i]]

\* construct.rs:149-159: a write of a value that has a stack gets a new value,
\* pushed on the stack; the first write of a value starts its stack with the
\* value itself and keeps its name.  The result is [name, value_stacks, next].
NameWrite(value, value_stacks, next) ==
    IF value \in DOMAIN value_stacks
    THEN [name |-> next,
          value_stacks |-> [value_stacks EXCEPT ![value] = Append(@, next)],
          next |-> next + 1]
    ELSE [name |-> value,
          value_stacks |-> (value :> <<value>>) @@ value_stacks,
          next |-> next]

\* construct.rs:139-168: the written operands of one instruction, in order;
\* acc is [w, value_stacks, next]
RECURSIVE RewriteWrites(_, _, _)
RewriteWrites(w, i, acc) ==
    IF i > Len(w) THEN acc
    ELSE LET nw == NameWrite(w[i], acc.value_stacks, acc.next)
         IN  RewriteWrites(w, i + 1,
                [w |-> Append(acc.w, nw.name),
                 value_stacks |-> nw.value_stacks,
                 next |-> nw.next])

\* construct.rs:122-171: the instructions of a block in index order; a phi
\* has its dest renamed, every other instruction its reads and then its
\* writes.  st is [block, value_stacks, next].
RECURSIVE RewriteBlock(_, _, _)
RewriteBlock(ixs, i, st) ==
    IF i > Len(ixs) THEN st
    ELSE LET ix == ixs[i]
             b == st.block
         IN  IF ix[1] = "Phi"
             THEN LET ws == RewriteWrites(<<b.phi[ix[2]].dest>>, 1,
                               [w |-> <<>>, value_stacks |-> st.value_stacks,
                                next |-> st.next])
                  IN  RewriteBlock(ixs, i + 1,
                         [block |-> [b EXCEPT !.phi[ix[2]].dest = ws.w[1]],
                          value_stacks |-> ws.value_stacks, next |-> ws.next])
             ELSE LET ins == IF ix[1] = "Inner" THEN b.inner[ix[2]] ELSE b.term
                      rd == RewriteReads(ins.r, st.value_stacks)
                      ws == RewriteWrites(ins.w, 1,
                               [w |-> <<>>, value_stacks |-> st.value_stacks,
                                next |-> st.next])
                      done == [ins EXCEPT !.r = rd, !.w = ws.w]
                  IN  RewriteBlock(ixs, i + 1,
                         [block |-> IF ix[1] = "Inner"
                                    THEN [b EXCEPT !.inner[ix[2]] = done]
                                    ELSE [b EXCEPT !.term = done],
                          value_stacks |-> ws.value_stacks, next |-> ws.next])

\* construct.rs:176-182: the operand a phi of a successor has for `node`
RewritePhiOperand(phi, node, value_stacks) ==
    LET old_value == phi.inc[node]
    IN  IF old_value \in DOMAIN value_stacks
        THEN [phi EXCEPT !.inc = (node :> value_stacks[old_value][Len(value_stacks[old_value])]) @@ @]
        ELSE phi

\* construct.rs:173-183: the phis of every successor of `node`
RewriteSuccessors(g, blks, node, value_stacks) ==
    [n \in DOMAIN blks |->
        IF n \in Successors(g, node)
        THEN [blks[n] EXCEPT !.phi =
                 [i \in DOMAIN @ |-> RewritePhiOperand(@[i], node, value_stacks)]]
        ELSE blks[n]]

\* a variant of PushChild that pushes the node back without its value stacks
PushChildWithoutStacks(stk, node, child, value_stacks) ==
    stk \o << <<node, <<>> >>, <<child, value_stacks>> >>

\* construct.rs:188-189: the node is pushed back under the child, both with
\* the value stacks the node ended with
PushChild(stk, node, child, value_stacks) ==
    stk \o << <<node, value_stacks>>, <<child, value_stacks>> >>

\* construct.rs:119-193: one iteration of `while let Some(..) = stack.pop()`.
\* The children of a node in the dominator tree come in an order the
\* dominator map's hashing fixes: any unvisited child can be the first.
SplitStep ==
    /\ pc = "split"
    /\ stack # <<>>
    /\ LET top == stack[Len(stack)]
           node == top[1]
           rest == SubSeq(stack, 1, Len(stack) - 1)
           fresh == node \notin visited
           st == IF fresh
                 THEN RewriteBlock(Indices(blocks[node]), 1,
                         [block |-> blocks[node], value_stacks |-> top[2],
                          next |-> next_value])
                 ELSE [block |-> blocks[node], value_stacks |-> top[2],
                       next |-> next_value]
           seen == visited \cup {node}
           children == DominatorTreeSuccessors(immediate_dominators, node) \ seen
       IN  /\ visited' = seen
           /\ next_value' = st.next
           /\ blocks' = IF fresh
                        THEN RewriteSuccessors(graph,
                                [blocks EXCEPT ![node] = st.block], node,
                                st.value_stacks)
                        ELSE blocks
           /\ rewrites' = IF fresh THEN [rewrites EXCEPT ![node] = @ + 1]
                          ELSE rewrites
           /\ stacks_in' = IF fresh THEN (node :> top[2]) @@ stacks_in
                           ELSE stacks_in
           /\ stacks_out' = IF fresh THEN (node :> st.value_stacks) @@ stacks_out
                            ELSE stacks_out
           /\ \/ /\ children = {}
                 /\ stack' = rest
              \/ \E child \in children :
                    stack' = PushChild(rest, node, child, st.value_stacks)
           /\ pc' = IF stack' = <<>> THEN "prune" ELSE "split"
    /\ UNCHANGED <<later_vars, graph, input, immediate_dominators, dominance_frontiers,
                   node_to_values_written, value_written_to_nodes,
                   value_to_nodes_with_phi, passes, snapshot, elided, deleted,
                   substituted>>

\* ---------------------------------------------------------------- pruning
\* a variant of IsTrivialPhi that only takes a phi that reads its own dest
IsSelfPhi(phi) == PhiReads(phi) = {phi.dest}

\* construct.rs:221-226: the phi's incoming values are one single value
IsTrivialPhi(phi) == Cardinality(PhiReads(phi)) = 1

\* construct.rs:232-256: no location reads the phi's dest, the phi's own
\* location left aside
IsDeadPhi(blks, node, phi_index) ==
    DefUseReads(blks, blks[node].phi[phi_index].dest)
        \ {<<node, <<"Phi", phi_index>> >>} = {}

\* construct.rs:217-263: phis_to_remove, as the set of <<node, phi_index>>
PhisToRemove(blks) ==
    {l \in UNION {{<<n, i>> : i \in DOMAIN blks[n].phi} : n \in DOMAIN blks} :
        /\ l[2] <= Len(blks[l[1]].phi)
        /\ \/ IsTrivialPhi(blks[l[1]].phi[l[2]])
           \/ IsDeadPhi(blks, l[1], l[2])}

\* construct.rs:226-230: values_to_replace; the nodes and their phis are gone
\* through in order, a later insert for the same dest replaces an earlier one
ValuesToReplace(blks) ==
    LET subst == {l \in UNION {{<<n, i>> : i \in DOMAIN blks[n].phi} : n \in DOMAIN blks} :
                    /\ l[2] <= Len(blks[l[1]].phi)
                    /\ IsTrivialPhi(blks[l[1]].phi[l[2]])
                    /\ PhiReads(blks[l[1]].phi[l[2]]) # {blks[l[1]].phi[l[2]].dest}}
        Dest(l) == blks[l[1]].phi[l[2]].dest
        Later(a, b) == a[1] > b[1] \/ (a[1] = b[1] /\ a[2] >= b[2])
    IN  [d \in {Dest(l) : l \in subst} |->
            LET last == CHOOSE l \in subst :
                    Dest(l) = d /\ \A m \in subst : Dest(m) = d => Later(l, m)
            IN  CHOOSE u \in PhiReads(blks[last[1]].phi[last[2]]) : TRUE]

\* a variant of RemovePhis that leaves every phi where it is
RemoveNoPhis(blks, marked) == blks

\* construct.rs:269-276: the marked phis leave their blocks
RemovePhis(blks, marked) ==
    [n \in DOMAIN blks |->
        [blks[n] EXCEPT !.phi =
            LET keep == SelectSeq([i \in 1..Len(blks[n].phi) |-> i],
                                  LAMBDA i : <<n, i>> \notin marked)
            IN  [k \in 1..Len(keep) |-> blks[n].phi[keep[k]]]]]

\* construct.rs:280-287: the substitutions applied to a block one after the
\* other, in the order the map yields them
RECURSIVE ReplaceAll(_, _, _, _)
ReplaceAll(b, order, i, values_to_replace) ==
    IF i > Len(order) THEN b
    ELSE ReplaceAll(ReplaceBlock(b, order[i], values_to_replace[order[i]]),
                    order, i + 1, values_to_replace)

\* the orders a hash map with these keys can be iterated in
IterationOrders(keys) ==
    {o \in [1..Cardinality(keys) -> keys] : Range(o) = keys}

\* construct.rs:213-291, one iteration of the loop that removes phis
PrunePass ==
    /\ pc = "prune"
    /\ PhisToRemove(blocks) # {}
    /\ LET values_to_replace == ValuesToReplace(blocks)
           removed == RemovePhis(blocks, PhisToRemove(blocks))
       IN  \E order \in IterationOrders(DOMAIN values_to_replace) :
              blocks' = [n \in DOMAIN blocks |->
                            ReplaceAll(removed[n], order, 1, values_to_replace)]
    /\ passes' = passes + 1
    /\ substituted' = substituted \cup
           {<<old, ValuesToReplace(blocks)[old]>> :
               old \in DOMAIN ValuesToReplace(blocks)}
    /\ UNCHANGED <<later_vars, graph, input, next_value, pc, immediate_dominators,
                   dominance_frontiers, node_to_values_written,
                   value_written_to_nodes, value_to_nodes_with_phi, visited,
                   stack, stacks_in, stacks_out, rewrites, snapshot, elided,
                   deleted>>

\* construct.rs:265-267, 297: no phi to remove ends the loop; copy elision
\* starts from a clone of the blocks
PruneBreak ==
    /\ pc = "prune"
    /\ PhisToRemove(blocks) = {}
    /\ pc' = "elide"
    /\ snapshot' = blocks
    /\ UNCHANGED <<later_vars, graph, input, blocks, next_value, immediate_dominators,
                   dominance_frontiers, node_to_values_written,
                   value_written_to_nodes, value_to_nodes_with_phi, visited,
                   stack, stacks_in, stacks_out, rewrites, passes, elided,
                   deleted,
                   substituted>>

\* ----------------------------------------------------------- copy elision
\* a variant of ElisionOrder that goes first index first
ForwardOrder(len) == [i \in 1..len |-> i]

\* construct.rs:298-299: the inner instructions of the cloned block, last
\* index first
ElisionOrder(len) == [i \in 1..len |-> len + 1 - i]

\* Vec::remove(index); last index first, the index is always in range
RemoveAt(seq, index) ==
    IF index \in 1..Len(seq)
    THEN SubSeq(seq, 1, index - 1) \o SubSeq(seq, index + 1, Len(seq))
    ELSE seq

\* construct.rs:301-313: for every Move of the cloned block, the reads of its
\* dest recorded by DefUse become its source, as the clone has it, and the
\* instruction at the Move's index leaves the block.  st is [blocks, deleted].
RECURSIVE ElideMoves(_, _, _, _, _)
ElideMoves(node, cloned, order, k, st) ==
    IF k > Len(order) THEN st
    ELSE LET instruction == cloned[order[k]]
         IN  IF instruction.kind = "Move"
             THEN LET dest == instruction.w[1]
                      source == instruction.r[1]
                      readers == {l[1] : l \in DefUseReads(st.blocks, dest)}
                      replaced == [n \in DOMAIN st.blocks |->
                                      IF n \in readers
                                      THEN ReplaceBlock(st.blocks[n], dest, source)
                                      ELSE st.blocks[n]]
                  IN  ElideMoves(node, cloned, order, k + 1,
                         [blocks |-> [replaced EXCEPT ![node].inner =
                                         RemoveAt(@, order[k])],
                          deleted |-> st.deleted \cup {dest}])
             ELSE ElideMoves(node, cloned, order, k + 1, st)

HasMove(b) == \E i \in DOMAIN b.inner : b.inner[i].kind = "Move"

\* construct.rs:297-315, one iteration of the loop over the cloned blocks (a
\* map: the blocks come in any order).  A block without a Move leaves the
\* function as it is and is passed over.
ElideBlock(node) ==
    /\ pc = "elide"
    /\ node \in DOMAIN snapshot
    /\ node \notin elided
    /\ HasMove(snapshot[node])
    /\ LET st == ElideMoves(node, snapshot[node].inner,
                            ElisionOrder(Len(snapshot[node].inner)), 1,
                            [blocks |-> blocks, deleted |-> deleted])
       IN  /\ blocks' = st.blocks
           /\ deleted' = st.deleted
    /\ elided' = elided \cup {node}
    /\ UNCHANGED <<later_vars, graph, input, next_value, pc, immediate_dominators,
                   dominance_frontiers, node_to_values_written,
                   value_written_to_nodes, value_to_nodes_with_phi, visited,
                   stack, stacks_in, stacks_out, rewrites, passes, snapshot,
                   substituted>>

\* construct.rs:320: Ok(())
Return ==
    /\ pc = "elide"
    /\ \A n \in DOMAIN snapshot : HasMove(snapshot[n]) => n \in elided
    /\ pc' = "done"
    /\ UNCHANGED <<later_vars, graph, input, blocks, next_value, immediate_dominators,
                   dominance_frontiers, node_to_values_written,
                   value_written_to_nodes, value_to_nodes_with_phi, visited,
                   stack, stacks_in, stacks_out, rewrites, passes, snapshot,
                   elided, deleted,
                   substituted>>

Next ==
    \/ NoEntry
    \/ Start
    \/ \E value \in OrigValues : InsertPhis(value)
    \/ BeginSplit
    \/ SplitStep
    \/ PrunePass
    \/ PruneBreak
    \/ \E node \in Nodes(graph) : ElideBlock(node)
    \/ Return

Spec == Init /\ [][Next]_vars

\* ================================================================ claims
\* values some instruction of the blocks writes
WrittenValues(blks) ==
    UNION {WritesAt(blks[l[1]], l[2]) : l \in Locations(blks)}

\* a parameter: a pre-SSA value no instruction of the input writes; it is
\* defined on entry to the function
IsParameter(v) == v \in 0..NumVals /\ v \notin WrittenValues(input)

\* C1: when construct returns Ok, every value that is written is written by
\* exactly one instruction of the function.
C1_SingleDefinition ==
    pc = "done" =>
        \A v \in WrittenValues(blocks) : Cardinality(DefUseWrites(blocks, v)) = 1

\* position of an index inside its block: the phis, the inner instructions in
\* order, the terminator
Rank(b, ix) ==
    IF ix[1] = "Phi" THEN 0
    ELSE IF ix[1] = "Inner" THEN ix[2]
    ELSE Len(b.inner) + 1

\* the definition at location d dominates the end of block p
DominatesEndOf(d, p) == IdomDominates(immediate_dominators, d[1], p)

\* the definition at location d dominates the non-phi instruction at l
DominatesLocation(blks, d, l) ==
    IF d[1] = l[1] THEN Rank(blks[d[1]], d[2]) < Rank(blks[l[1]], l[2])
    ELSE IdomDominates(immediate_dominators, d[1], l[1])

\* every read of the location l is of a parameter or of a value that has a
\* definition, every definition of it dominating the read
ReadDominated(blks, l) ==
    LET b == blks[l[1]]
    IN  IF l[2][1] = "Phi"
        THEN \A p \in DOMAIN b.phi[l[2][2]].inc :
                LET v == b.phi[l[2][2]].inc[p]
                IN  \/ IsParameter(v)
                    \/ /\ DefUseWrites(blks, v) # {}
                       /\ \A d \in DefUseWrites(blks, v) : DominatesEndOf(d, p)
        ELSE \A v \in ReadsAt(b, l[2]) :
                \/ IsParameter(v)
                \/ /\ DefUseWrites(blks, v) # {}
                   /\ \A d \in DefUseWrites(blks, v) : DominatesLocation(blks, d, l)

\* C2: when construct returns Ok, every read of a value is dominated by the
\* definition of that value (a phi read counts at the end of its predecessor).
C2_DefinitionDominatesReads ==
    pc = "done" => \A l \in Locations(blocks) : ReadDominated(blocks, l)

\* every phi of the function, as <<node, phi_index>>
PhiLocations(blks) ==
    {l \in Locations(blks) : l[2][1] = "Phi"}

PhiAt(blks, l) == blks[l[1]].phi[l[2][2]]

\* C3: from phi insertion onward every phi of a block B has an incoming
\* value for exactly the predecessors of B.
C3_PhiDomainIsPredecessors ==
    \A l \in PhiLocations(blocks) :
        DOMAIN PhiAt(blocks, l).inc = Predecessors(graph, l[1])

\* construct has returned a phi that renaming gave a new operand, after
\* copy elision deleted a Move
C3_Witness ==
    /\ pc = "done"
    /\ deleted # {}
    /\ \E l \in PhiLocations(blocks) :
          \E v \in PhiReads(PhiAt(blocks, l)) : v > NumVals

\* the blocks of the input that write v
Writers(v) == {n \in DOMAIN input : v \in Range(ValuesWritten(input[n]))}

\* the union of the dominance frontiers of a set of blocks
FrontierOf(g, set) ==
    UNION {DominanceFrontiersOf[g][b] : b \in set \cap ReachableOf[g]}

\* the iterated dominance frontier: the least set that holds the frontier of
\* the blocks and the frontier of itself
RECURSIVE IteratedFrontier(_, _, _)
IteratedFrontier(g, set, acc) ==
    LET more == FrontierOf(g, set \cup acc)
    IN  IF more \subseteq acc THEN acc ELSE IteratedFrontier(g, set, acc \cup more)

PhisFor(blks, f, v) == {i \in DOMAIN blks[f].phi : blks[f].phi[i].dest = v}

\* C4: phi insertion places a phi for v in F exactly when F is in the
\* iterated dominance frontier of the blocks that write v, never two for the
\* same v in one block, and every inserted phi maps each predecessor to v.
C4_PhisAtIteratedFrontier ==
    /\ pc = "insert" =>
          \A v \in OrigValues : \A f \in Nodes(graph) :
              Cardinality(PhisFor(blocks, f, v)) <= 1
    /\ (pc = "split" /\ visited = {}) =>
          \A v \in OrigValues : \A f \in Nodes(graph) :
              /\ Cardinality(PhisFor(blocks, f, v)) =
                    (IF f \in IteratedFrontier(graph, Writers(v), {}) THEN 1 ELSE 0)
              /\ \A i \in PhisFor(blocks, f, v) :
                    blocks[f].phi[i].inc = [p \in Predecessors(graph, f) |-> v]

\* insertion is over and some phi stands in a block that is in the frontier
\* of no block writing its value: only the iteration places it
C4_Witness ==
    /\ pc = "split"
    /\ visited = {}
    /\ \E v \in OrigValues : \E f \in Nodes(graph) :
          /\ PhisFor(blocks, f, v) # {}
          /\ f \notin FrontierOf(graph, Writers(v))

\* C5: renaming rewrites every block of the dominator tree exactly once, and
\* a block is rewritten with the names in effect at the end of its immediate
\* dominator, whatever its dominator-tree siblings pushed.
C5_RenamingFollowsDominatorTree ==
    /\ \A n \in Nodes(graph) : rewrites[n] <= 1
    /\ \A n \in DOMAIN stacks_in :
          IF n = Entry(graph) THEN stacks_in[n] = <<>>
          ELSE /\ immediate_dominators[n] \in DOMAIN stacks_out
               /\ stacks_in[n] = stacks_out[immediate_dominators[n]]
    /\ pc \in {"prune", "elide", "done"} =>
          \A n \in ReachableOf[graph] : rewrites[n] = 1

\* renaming is over and two siblings of the dominator tree have both pushed
\* names while they were rewritten
C5_Witness ==
    /\ pc = "prune"
    /\ \E a \in DOMAIN immediate_dominators : \E b \in DOMAIN immediate_dominators :
          /\ a # b
          /\ immediate_dominators[a] = immediate_dominators[b]
          /\ stacks_out[a] # stacks_in[a]
          /\ stacks_out[b] # stacks_in[b]

\* a phi whose incoming values are all one value other than its dest
CollapsiblePhi(phi) ==
    Cardinality(PhiReads(phi)) = 1 /\ PhiReads(phi) # {phi.dest}

\* renaming left every written value with one definition, and every read
\* with a definition that dominates it, in the blocks copy elision started
\* from
RenamedIntoSSA ==
    /\ \A v \in WrittenValues(snapshot) : Cardinality(DefUseWrites(snapshot, v)) = 1
    /\ \A l \in Locations(snapshot) : ReadDominated(snapshot, l)

\* C6 as claimed: the function construct returns holds no phi whose incoming
\* values are all one value u other than the phi's dest (looked at on the
\* runs where renaming produced SSA form, so that nothing else is at play).
C6_NoCollapsiblePhiReturned ==
    (pc = "done" /\ RenamedIntoSSA) =>
        \A l \in PhiLocations(blocks) : ~CollapsiblePhi(PhiAt(blocks, l))

\* C6 as amended: when the pruning loop ends, before copy elision, there is
\* no phi whose incoming values are all one value u other than its dest.
C6_NoCollapsiblePhiAfterPruning ==
    (pc = "elide" /\ elided = {}) =>
        \A l \in PhiLocations(blocks) : ~CollapsiblePhi(PhiAt(blocks, l))

\* the pruning loop has ended after it collapsed a phi into its one incoming
\* value
C6_Witness ==
    /\ pc = "elide"
    /\ elided = {}
    /\ substituted # {}

\* C7: after the pruning fixpoint every remaining phi has a reader that is
\* not a phi.
C7_EveryPhiHasNonPhiReader ==
    (pc = "elide" /\ elided = {}) =>
        \A l \in PhiLocations(blocks) :
            \E r \in DefUseReads(blocks, PhiAt(blocks, l).dest) : r[2][1] # "Phi"

\* the ids of the inner instructions of a block, in order
Ids(inner) == [i \in DOMAIN inner |-> inner[i].id]

\* C8: when construct returns Ok no block holds a Move, and the inner
\* instructions of each block are the non-Move instructions of the input
\* block, in the same order.
C8_MovesGoneOthersKept ==
    pc = "done" =>
        \A n \in Nodes(graph) :
            /\ ~HasMove(blocks[n])
            /\ Ids(blocks[n].inner) =
                  Ids(SelectSeq(input[n].inner, LAMBDA ins : ins.kind # "Move"))

\* construct has returned for an input block made of a Move and another
\* instruction
C8_Witness ==
    /\ pc = "done"
    /\ \E n \in Nodes(graph) :
          /\ Len(input[n].inner) = 2
          /\ HasMove(input[n])
          /\ Len(blocks[n].inner) = 1

\* C9: when construct returns, no phi, inner instruction or terminator reads
\* the dest of a Move copy elision deleted (looked at on the runs where
\* renaming produced SSA form, so that nothing else is at play).
C9_NoReadOfDeletedDest ==
    (pc = "done" /\ RenamedIntoSSA) =>
        \A l \in Locations(blocks) : ReadsAt(blocks[l[1]], l[2]) \cap deleted = {}

\* the input is in SSA form already: no Move, every value written at most
\* once, every read dominated by the definition of the value it reads
InputInSSA ==
    /\ \A n \in Nodes(graph) : ~HasMove(input[n])
    /\ \A v \in WrittenValues(input) : Cardinality(DefUseWrites(input, v)) = 1
    /\ \A l \in Locations(input) : ReadDominated(input, l)

\* C10: construct leaves a function that is in SSA form already as it is.
C10_SSAInputUnchanged ==
    (pc = "done" /\ InputInSSA) => blocks = input

\* the function after one pass of the pruning loop that iterates the map of
\* substitutions in the given order
PrunedInOrder(blks, order) ==
    [n \in DOMAIN blks |->
        ReplaceAll(RemovePhis(blks, PhisToRemove(blks))[n], order, 1,
                   ValuesToReplace(blks))]

\* the function after copy elision that takes the cloned blocks in the given
\* order, from block number k of the order on
RECURSIVE ElidedInOrder(_, _, _, _)
ElidedInOrder(cloned, order, k, st) ==
    IF k > Len(order) THEN st
    ELSE ElidedInOrder(cloned, order, k + 1,
             ElideMoves(order[k], cloned[order[k]].inner,
                        ElisionOrder(Len(cloned[order[k]].inner)), 1, st))

\* the blocks of a function that hold a Move
BlocksWithMove(blks) == {n \in DOMAIN blks : HasMove(blks[n])}

\* the pruning pass about to run gives one function whatever order its map
\* of substitutions is iterated in
PruneOrderIrrelevant ==
    (pc = "prune" /\ PhisToRemove(blocks) # {}) =>
        \A o1 \in IterationOrders(DOMAIN ValuesToReplace(blocks)) :
            \A o2 \in IterationOrders(DOMAIN ValuesToReplace(blocks)) :
                PrunedInOrder(blocks, o1) = PrunedInOrder(blocks, o2)

\* copy elision about to run gives one function whatever order the cloned
\* blocks are iterated in
ElisionOrderIrrelevant ==
    (pc = "elide" /\ elided = {}) =>
        \A o1 \in IterationOrders(BlocksWithMove(snapshot)) :
            \A o2 \in IterationOrders(BlocksWithMove(snapshot)) :
                ElidedInOrder(snapshot, o1, 1,
                              [blocks |-> blocks, deleted |-> deleted]).blocks =
                ElidedInOrder(snapshot, o2, 1,
                              [blocks |-> blocks, deleted |-> deleted]).blocks

\* C11: construct is deterministic: the pruning pass gives the same function
\* whatever order the map of substitutions is iterated in, and copy elision
\* gives the same function whatever order the map of blocks is iterated in.
C11_IterationOrderIrrelevant ==
    PruneOrderIrrelevant /\ (RenamedIntoSSA => ElisionOrderIrrelevant)

\* C12: construct called on a function that has no entry returns the NoEntry
\* error and leaves the function as it was: the blocks are those of the
\* input (no phi inserted, no value renamed, no instruction removed) and no
\* value has been allocated; and it does not go on to return Ok.
C12_NoEntryLeavesFunctionUnchanged ==
    /\ Entry(graph) = 0 => pc \in {"start", "error"}
    /\ pc = "error" =>
          /\ Entry(graph) = 0
          /\ blocks = input
          /\ next_value = NumVals + 1
          /\ value_to_nodes_with_phi = <<>>
          /\ deleted = {}
          /\ substituted = {}

\* construct has returned the error for a function whose blocks write a
\* value and hold a Move
C12_Witness ==
    /\ pc = "error"
    /\ \E n \in Nodes(graph) : HasMove(input[n])
    /\ WrittenValues(input) # {}

\* ==================================================== directed graphs
\* A directed graph as the later phases see it: [nodes, succ], succ[n] the
\* sequence of the successors of n (a conditional block: <<then, else>>).
Neighbors(g, n) == IF n \in g.nodes THEN Range(g.succ[n]) ELSE {}

Sources(g, n) == {p \in g.nodes : n \in Range(g.succ[p])}

\* the nodes reachable from the nodes of `seen` on paths that avoid `avoid`
RECURSIVE ReachWithout(_, _, _)
ReachWithout(g, avoid, seen) ==
    LET next == (UNION {Neighbors(g, n) : n \in seen}) \ (seen \cup avoid)
    IN  IF next = {} THEN seen ELSE ReachWithout(g, avoid, seen \cup next)

ReachFrom(g, from) == ReachWithout(g, {}, {from})

\* d is on every path from r to n
OnEveryPath(g, r, d, n) ==
    /\ n \in ReachFrom(g, r)
    /\ d = n \/ d = r \/ n \notin ReachWithout(g, {d}, {r})

\* petgraph simple_fast(graph, r): the immediate dominator of every node
\* reachable from r, r itself excepted
simple_fast(g, r) ==
    [n \in ReachFrom(g, r) \ {r} |->
        CHOOSE d \in g.nodes \ {n} :
            /\ OnEveryPath(g, r, d, n)
            /\ \A e \in g.nodes \ {n} : OnEveryPath(g, r, e, n) => OnEveryPath(g, r, e, d)]

\* Dominators::dominators(n): n and the chain of immediate dominators above
RECURSIVE DominatorChain(_, _)
DominatorChain(doms, n) ==
    IF n \in DOMAIN doms THEN {n} \cup DominatorChain(doms, doms[n]) ELSE {n}

\* depth_first_search(graph, Some(r), visitor): st is [discovered, finished,
\* back], back the destinations of the BackEdge events
RECURSIVE DfsVisit(_, _, _), DfsEdges(_, _, _, _, _)
DfsVisit(g, u, st) ==
    LET after == DfsEdges(g, u, g.succ[u], 1, [st EXCEPT !.discovered = @ \cup {u}])
    IN  [after EXCEPT !.finished = @ \cup {u}]

DfsEdges(g, u, ns, i, st) ==
    IF i > Len(ns) THEN st
    ELSE IF ns[i] \notin st.discovered
         THEN DfsEdges(g, u, ns, i + 1, DfsVisit(g, ns[i], st))
         ELSE IF ns[i] \notin st.finished
              THEN DfsEdges(g, u, ns, i + 1, [st EXCEPT !.back = @ \cup {ns[i]}])
              ELSE DfsEdges(g, u, ns, i + 1, st)

BackEdgeDestinations(g, r) ==
    DfsVisit(g, r, [discovered |-> {}, finished |-> {}, back |-> {}]).back

\* the order depth-first search discovers the nodes in
RECURSIVE Preorder(_, _, _)
Preorder(g, todo, seen) ==
    IF todo = <<>> THEN seen
    ELSE IF Head(todo) \in Range(seen) THEN Preorder(g, Tail(todo), seen)
         ELSE Preorder(g, g.succ[Head(todo)] \o Tail(todo), Append(seen, Head(todo)))

\* the graphs of K blocks: every block has no successor, one, or a then and
\* an else successor; the blocks are numbered as depth-first search from
\* block 1 discovers them, and the last block may be unreachable
EdgeLists(K) ==
    {<<>>} \cup {<<a>> : a \in 1..K}
           \cup ({<<a, b>> : a \in 1..K, b \in 1..K} \ {<<a, a>> : a \in 1..K})

GraphsOf(K) ==
    {g \in [nodes : {1..K}, succ : [1..K -> EdgeLists(K)]] :
        \/ Preorder(g, <<1>>, <<>>) = [i \in 1..K |-> i]
        \/ /\ K > 1
           /\ Preorder(g, <<1>>, <<>>) = [i \in 1..(K - 1) |-> i]
           /\ g.succ[K] \in {<<>>, <<1>>}}

FlowGraphs == UNION {GraphsOf(K) : K \in 1..MaxNodes}

\* ====================================================== post_dominators
\* a set as a sequence, in some order
RECURSIVE SeqOf(_)
SeqOf(set) ==
    IF set = {} THEN <<>>
    ELSE LET x == CHOOSE y \in set : TRUE IN <<x>> \o SeqOf(set \ {x})

\* Reversed(&graph): every edge the other way round
Reversed(g) == [nodes |-> g.nodes, succ |-> [n \in g.nodes |-> SeqOf(Sources(g, n))]]

\* graph.add_node(..): the index of the new node
NewNode(g) == Cardinality(g.nodes) + 1

\* graph.add_edge(from, to, ..) for every `from` of a set
WithEdgesTo(g, froms, to) ==
    [g EXCEPT !.succ = [n \in g.nodes |->
                           IF n \in froms THEN Append(g.succ[n], to) ELSE g.succ[n]]]

WithNode(g, node) ==
    [nodes |-> g.nodes \cup {node},
     succ |-> [n \in g.nodes \cup {node} |-> IF n = node THEN <<>> ELSE g.succ[n]]]

\* a variant of post_dominators that does not reverse the graph
post_dominators_forward(g) ==
    LET exits == {n \in g.nodes : Cardinality(Neighbors(g, n)) = 0}
        fake_exit == NewNode(g)
    IN  simple_fast(WithEdgesTo(WithNode(g, fake_exit), exits, fake_exit), fake_exit)

\* lib.rs:20-32: the nodes without successor get an edge to a new node, and
\* the dominators of the reversed graph from that node are returned
post_dominators(g) ==
    LET exits == {n \in g.nodes : Cardinality(Neighbors(g, n)) = 0}
        fake_exit == NewNode(g)
    IN  simple_fast(Reversed(WithEdgesTo(WithNode(g, fake_exit), exits, fake_exit)),
                    fake_exit)

\* none of the state of SSA construction
ConstructUnused ==
    /\ input = Unused
    /\ next_value = Unused
    /\ immediate_dominators = Unused
    /\ dominance_frontiers = Unused
    /\ node_to_values_written = Unused
    /\ value_written_to_nodes = Unused
    /\ value_to_nodes_with_phi = Unused
    /\ stacks_in = Unused
    /\ stacks_out = Unused
    /\ rewrites = Unused
    /\ passes = Unused
    /\ snapshot = Unused
    /\ elided = Unused
    /\ deleted = Unused
    /\ substituted = Unused

\* a caller holds a graph and is about to ask for its post-dominators
InitPostDominators ==
    /\ graph \in FlowGraphs
    /\ pc = "call"
    /\ dominators = Unused
    /\ ConstructUnused
    /\ AnalysesUnused
    /\ blocks = Unused
    /\ stack = Unused
    /\ visited = Unused
    /\ function = Unused
    /\ root = Unused
    /\ loop_headers = Unused
    /\ dfs_postorder = Unused
    /\ changed = Unused
    /\ tried = Unused
    /\ sweeps = Unused
    /\ result = Unused
    /\ post_dom_tree = Unused
    /\ loop_exits = Unused
    /\ stops = Unused
    /\ links = Unused

\* the call of post_dominators(graph) and its return
PostDominatorsCall ==
    /\ pc = "call"
    /\ dominators' = post_dominators(graph)
    /\ pc' = "returned"
    /\ UNCHANGED <<construct_vars, graph, blocks, stack, visited, function,
                   root, loop_headers, dfs_postorder, changed, tried, sweeps,
                   result, post_dom_tree, loop_exits, stops, links,
                   analyses_vars>>

NextPostDominators == PostDominatorsCall

SpecPostDominators == InitPostDominators /\ [][NextPostDominators]_vars

\* the nodes without successor
Terminals(g) == {n \in g.nodes : Neighbors(g, n) = {}}

\* x is on every path from n to a node without successor, and some such
\* path exists
PostDominates(g, x, n) ==
    /\ ReachFrom(g, n) \cap Terminals(g) # {}
    /\ x = n \/ ReachWithout(g, {x}, {n}) \cap Terminals(g) = {}

StrictPostDominators(g, n) == {x \in g.nodes \ {n} : PostDominates(g, x, n)}

\* C17: post_dominators(graph) gives every node without successor the
\* synthetic exit as immediate post-dominator, every other node that can
\* reach a node without successor its nearest strict post-dominator (the
\* synthetic exit when no node of the graph post-dominates it strictly), and
\* a node that can reach no node without successor, like the synthetic exit
\* itself, no post-dominator.
C17_PostDominatorsOfAugmentedGraph ==
    pc = "returned" =>
        /\ \A n \in Terminals(graph) :
              n \in DOMAIN dominators /\ dominators[n] = NewNode(graph)
        /\ \A n \in graph.nodes \ Terminals(graph) :
              IF ReachFrom(graph, n) \cap Terminals(graph) = {}
              THEN n \notin DOMAIN dominators
              ELSE /\ n \in DOMAIN dominators
                   /\ IF StrictPostDominators(graph, n) = {}
                      THEN dominators[n] = NewNode(graph)
                      ELSE /\ dominators[n] \in StrictPostDominators(graph, n)
                           /\ \A y \in StrictPostDominators(graph, n) :
                                 PostDominates(graph, y, dominators[n])
        /\ DOMAIN dominators \subseteq graph.nodes

\* post_dominators has returned for a graph with a node inside an infinite
\* loop and a conditional node that a node of the graph post-dominates
C17_Witness ==
    /\ pc = "returned"
    /\ \E n \in graph.nodes : n \notin DOMAIN dominators
    /\ \E n \in DOMAIN dominators :
          dominators[n] \in graph.nodes /\ Len(graph.succ[n]) = 2

\* ========================================================= restructurer
\* The statements of an AST block: the straight-line content of block n of
\* the input, an If, a While (its condition is the literal true), a Break
\* and the Comment of structure().
Statement(n) == [kind |-> "Stmt", n |-> n]

IfStatement(condition, then_block, else_block) ==
    [kind |-> "If", condition |-> condition, then_block |-> then_block,
     else_block |-> else_block]

WhileStatement(body) == [kind |-> "While", body |-> body]

BreakStatement == [kind |-> "Break"]

Comment(nodes) == [kind |-> "Comment", nodes |-> nodes]

\* conditions: the condition local of block n, a negation, an and, an or
Local(n) == [op |-> "local", n |-> n]

Not(c) == [op |-> "not", args |-> <<c>>]

Binary(op, left, right) == [op |-> op, args |-> <<left, right>>]

\* the function handed to the restructurer: the graph of g, and for every
\* block its AST: the block's statements (none for a block of `bare`) and,
\* for a block that ends in a conditional jump, the If shell
FunctionOf(g, bare) ==
    [nodes |-> g.nodes,
     succ |-> g.succ,
     ast |-> [n \in g.nodes |->
                 (IF n \in bare THEN <<>> ELSE <<Statement(n)>>) \o
                 (IF Len(g.succ[n]) = 2
                  THEN <<IfStatement(Local(n), <<>>, <<>>)>> ELSE <<>>)]]

StructurerInput(f) ==
    \E g \in FlowGraphs :
        \E bare \in SUBSET {n \in g.nodes \ {1} : Len(g.succ[n]) = 2} :
            f = FunctionOf(g, bare)

\* function.remove_block(node): the block and the edges at it go
RemoveBlock(f, node) ==
    [nodes |-> f.nodes \ {node},
     succ |-> [n \in f.nodes \ {node} |-> SelectSeq(f.succ[n], LAMBDA x : x # node)],
     ast |-> [n \in f.nodes \ {node} |-> f.ast[n]]]

RECURSIVE RemoveBlocks(_, _)
RemoveBlocks(f, set) ==
    IF set = {} THEN f
    ELSE LET x == CHOOSE y \in set : TRUE IN RemoveBlocks(RemoveBlock(f, x), set \ {x})

\* the number of blocks that end in a conditional jump
ConditionalCount(f) == Cardinality({n \in f.nodes : Len(f.succ[n]) = 2})

\* the block's statements with the If shell at their end replaced
WithLastIf(block, if_stat) == Append(SubSeq(block, 1, Len(block) - 1), if_stat)

LastCondition(block) == block[Len(block)].condition

\* ------------------------------------------------- the rules (spec 4.4)
\* what a rule hands back: the function and whether it changed it
Unmatched(f) == [function |-> f, changed |-> FALSE]

Matched(f) == [function |-> f, changed |-> TRUE]

\* "dominated solely by N": N is the only predecessor of the block
SoleEntry(f, node, b) == b # node /\ b \in f.nodes /\ Sources(f, b) = {node}

\* Compound conditional: one of the two successors of `node` is a
\* two-successor block entered from `node` alone that holds nothing but its
\* If and shares a target with `node`; the two conditions become one Binary
\* condition on `node`, the successors are rewired and the block goes.
FoldInto(f, node, folded, condition, successors) ==
    Matched(RemoveBlock(
        [f EXCEPT !.ast[node] =
                      WithLastIf(@, IfStatement(condition, <<>>, <<>>)),
                  !.succ[node] = successors],
        folded))

match_compound_conditional(f, node, then_node, else_node) ==
    LET c == LastCondition(f.ast[node])
        Foldable(b) ==
            /\ SoleEntry(f, node, b)
            /\ Len(f.succ[b]) = 2
            /\ Len(f.ast[b]) = 1
        d(b) == LastCondition(f.ast[b])
    IN  IF Foldable(then_node) /\ f.succ[then_node][2] = else_node
        THEN FoldInto(f, node, then_node, Binary("and", c, d(then_node)),
                      <<f.succ[then_node][1], else_node>>)
        ELSE IF Foldable(then_node) /\ f.succ[then_node][1] = else_node
        THEN FoldInto(f, node, then_node, Binary("and", c, Not(d(then_node))),
                      <<f.succ[then_node][2], else_node>>)
        ELSE IF Foldable(else_node) /\ f.succ[else_node][1] = then_node
        THEN FoldInto(f, node, else_node, Binary("or", c, d(else_node)),
                      <<then_node, f.succ[else_node][2]>>)
        ELSE IF Foldable(else_node) /\ f.succ[else_node][2] = then_node
        THEN FoldInto(f, node, else_node, Binary("or", c, Not(d(else_node))),
                      <<then_node, f.succ[else_node][1]>>)
        ELSE Unmatched(f)

\* Jump collapse: the one successor of `node` is dominated by it and has no
\* other predecessor; its statements are appended to those of `node`, which
\* takes over its edges, and it goes.
match_jump(f, node, next, doms) ==
    IF SoleEntry(f, node, next) /\ node \in DominatorChain(doms, next)
    THEN Matched(RemoveBlock(
             [f EXCEPT !.ast[node] = @ \o f.ast[next],
                       !.succ[node] = f.succ[next]],
             next))
    ELSE Unmatched(f)

\* Simple if/else: a branch is a block dominated by `node`, entered from it
\* alone, that leaves through at most one edge.  Both branches with the same
\* exit X: if cond then T else E end; the then branch alone, leaving to the
\* else target: if cond then T end; the else branch alone, leaving to the
\* then target: if not cond then E end.  `node` goes on to X.
match_conditional(f, node, then_node, else_node, doms) ==
    LET c == LastCondition(f.ast[node])
        Branch(b) ==
            /\ SoleEntry(f, node, b)
            /\ node \in DominatorChain(doms, b)
            /\ Len(f.succ[b]) <= 1
        Filled(if_stat, successors, gone) ==
            Matched(RemoveBlocks(
                [f EXCEPT !.ast[node] = WithLastIf(@, if_stat),
                          !.succ[node] = successors],
                gone))
    IN  IF Branch(then_node) /\ Branch(else_node)
           /\ f.succ[then_node] = f.succ[else_node]
        THEN Filled(IfStatement(c, f.ast[then_node], f.ast[else_node]),
                    f.succ[then_node], {then_node, else_node})
        ELSE IF Branch(then_node) /\ f.succ[then_node] = <<else_node>>
        THEN Filled(IfStatement(c, f.ast[then_node], <<>>),
                    <<else_node>>, {then_node})
        ELSE IF Branch(else_node) /\ f.succ[else_node] = <<then_node>>
        THEN Filled(IfStatement(Not(c), f.ast[else_node], <<>>),
                    <<then_node>>, {else_node})
        ELSE Unmatched(f)

\* Loop collapse: `header` is a loop header whose body has been contracted
\* into it (an edge from the header to itself) or into one block entered
\* from the header alone that jumps back to it; the body is wrapped as
\* while true do .. end, with a Break on the edge that leaves the loop, and
\* the header goes on to the loop exit.
try_collapse_loop(f, headers, header, doms) ==
    LET successors == f.succ[header]
        Body(b) ==
            /\ SoleEntry(f, header, b)
            /\ header \in DominatorChain(doms, b)
            /\ f.succ[b] = <<header>>
        Inside(b) == b = header \/ Body(b)
        StatementsOf(b) == IF b = header THEN <<>> ELSE f.ast[b]
        exits == SelectSeq(successors, LAMBDA b : ~Inside(b))
        bodies == {b \in Range(successors) : Body(b)}
        Exit(b) == IF Inside(b) THEN StatementsOf(b) ELSE <<BreakStatement>>
        body == IF Len(successors) = 2
                THEN WithLastIf(f.ast[header],
                         IfStatement(LastCondition(f.ast[header]),
                                     Exit(successors[1]), Exit(successors[2])))
                ELSE f.ast[header] \o StatementsOf(successors[1])
    IN  IF /\ header \in headers
           /\ \E b \in Range(successors) : Inside(b)
           /\ Len(exits) <= 1
        THEN Matched(RemoveBlocks(
                 [f EXCEPT !.ast[header] = <<WhileStatement(body)>>,
                           !.succ[header] = exits],
                 bodies))
        ELSE Unmatched(f)

\* ------------------------------------------------ GraphStructurer (lib.rs)
\* what try_match_pattern hands back: the function, whether it changed, the
\* rules it called, in the order of the calls, and those that reported a
\* change
Outcome(m, rules, fired) ==
    [function |-> m.function, changed |-> m.changed, rules |-> rules,
     fired |-> IF m.changed THEN Append(fired, rules[Len(rules)]) ELSE fired]

\* a variant of try_match_pattern that goes on to the later rules after the
\* compound conditional rule has changed the function
try_match_pattern_falling_through(f, headers, node, doms) ==
    LET successors == f.succ[node]
        compound == IF Len(successors) = 2
                    THEN match_compound_conditional(f, node, successors[1], successors[2])
                    ELSE Unmatched(f)
        first == IF Len(successors) = 2 THEN <<"compound">> ELSE <<>>
        before == IF compound.changed THEN <<"compound">> ELSE <<>>
        g == compound.function
        loop == try_collapse_loop(g, headers, node, doms)
    IN  IF loop.changed THEN Outcome(loop, first \o <<"loop">>, before)
        ELSE IF Len(g.succ[node]) = 1
        THEN Outcome(match_jump(g, node, g.succ[node][1], doms),
                     first \o <<"loop", "jump">>, before)
        ELSE IF Len(g.succ[node]) = 2
        THEN Outcome(match_conditional(g, node, g.succ[node][1], g.succ[node][2], doms),
                     first \o <<"loop", "conditional">>, before)
        ELSE Outcome(Unmatched(g), first \o <<"loop">>, before)

\* lib.rs:65-118: the compound conditional rule when the node has two
\* successors, then loop collapse, then jump collapse (one successor) or the
\* conditional rule (two successors); the first rule that changes the
\* function ends the visit
try_match_pattern(f, headers, node, doms) ==
    LET successors == f.succ[node]
        compound == IF Len(successors) = 2
                    THEN match_compound_conditional(f, node, successors[1], successors[2])
                    ELSE Unmatched(f)
        first == IF Len(successors) = 2 THEN <<"compound">> ELSE <<>>
        loop == try_collapse_loop(f, headers, node, doms)
    IN  IF compound.changed THEN Outcome(compound, first, <<>>)
        ELSE IF loop.changed THEN Outcome(loop, first \o <<"loop">>, <<>>)
        ELSE IF Len(successors) = 1
        THEN Outcome(match_jump(f, node, successors[1], doms),
                     first \o <<"loop", "jump">>, <<>>)
        ELSE IF Len(successors) = 2
        THEN Outcome(match_conditional(f, node, successors[1], successors[2], doms),
                     first \o <<"loop", "conditional">>, <<>>)
        ELSE Outcome(Unmatched(f), first \o <<"loop">>, <<>>)

\* petgraph DfsPostOrder::next(graph): st is [stack, discovered, finished],
\* the top of the stack is its last element; hands back the state and the
\* next node in post-order (0: None)
RECURSIVE DfsPostOrderNext(_, _)
DfsPostOrderNext(g, st) ==
    IF st.stack = <<>> THEN [state |-> st, node |-> 0]
    ELSE LET nx == st.stack[Len(st.stack)]
         IN  IF nx \notin st.discovered
             THEN DfsPostOrderNext(g,
                      [st EXCEPT !.discovered = @ \cup {nx},
                                 !.stack = @ \o SelectSeq(
                                     IF nx \in g.nodes THEN g.succ[nx] ELSE <<>>,
                                     LAMBDA succ : succ \notin st.discovered \cup {nx})])
             ELSE LET popped == [st EXCEPT !.stack = SubSeq(@, 1, Len(@) - 1)]
                  IN  IF nx \notin st.finished
                      THEN [state |-> [popped EXCEPT !.finished = @ \cup {nx}],
                            node |-> nx]
                      ELSE DfsPostOrderNext(g, popped)

\* lift(function) is called with a function whose blocks hold their AST
InitStructure ==
    /\ StructurerInput(function)
    /\ pc = "new"
    /\ root = Unused
    /\ loop_headers = Unused
    /\ dominators = Unused
    /\ dfs_postorder = Unused
    /\ changed = FALSE
    /\ tried = <<>>
    /\ sweeps = 0
    /\ result = Unused
    /\ ConstructUnused
    /\ AnalysesUnused
    /\ graph = Unused
    /\ blocks = Unused
    /\ stack = Unused
    /\ visited = Unused
    /\ post_dom_tree = Unused
    /\ loop_exits = Unused
    /\ stops = Unused
    /\ links = Unused

\* the variables the restructurer does not use
not_structure_vars == <<construct_vars, graph, blocks, stack, visited,
                        post_dom_tree, loop_exits, stops, links, analyses_vars>>

\* lib.rs:41-55, GraphStructurer::new: the root is the entry, the loop
\* headers are the destinations of the back edges of a depth-first search
NewStructurer ==
    /\ pc = "new"
    /\ root' = 1
    /\ loop_headers' = BackEdgeDestinations(function, 1)
    /\ pc' = "collapse"
    /\ UNCHANGED <<function, dominators, dfs_postorder, changed, tried, sweeps,
                   result, not_structure_vars>>

\* match_blocks without the removal of the blocks that are not reachable
MatchBlocksKeepingUnreachable ==
    /\ pc = "collapse"
    /\ dfs_postorder' = [stack |-> <<root>>, discovered |-> {}, finished |-> {}]
    /\ dominators' = simple_fast(function, root)
    /\ function' = function
    /\ changed' = FALSE
    /\ tried' = <<>>
    /\ sweeps' = sweeps + 1
    /\ pc' = "sweep"
    /\ UNCHANGED <<root, loop_headers, result, not_structure_vars>>

\* lib.rs:120-139, match_blocks up to its loop: the nodes reachable from the
\* root, a post-order traversal, the dominators; the blocks that are not
\* reachable are removed
MatchBlocks ==
    /\ pc = "collapse"
    /\ dfs_postorder' = [stack |-> <<root>>, discovered |-> {}, finished |-> {}]
    /\ dominators' = simple_fast(function, root)
    /\ function' = RemoveBlocks(function, function.nodes \ ReachFrom(function, root))
    /\ changed' = FALSE
    /\ tried' = <<>>
    /\ sweeps' = sweeps + 1
    /\ pc' = "sweep"
    /\ UNCHANGED <<root, loop_headers, result, not_structure_vars>>

\* lib.rs:140-147, one iteration of the loop of match_blocks: the next node
\* in post-order is matched against the rules
VisitNode ==
    /\ pc = "sweep"
    /\ LET next == DfsPostOrderNext(function, dfs_postorder)
           m == try_match_pattern(function, loop_headers, next.node, dominators)
       IN  /\ next.node # 0
           /\ dfs_postorder' = next.state
           /\ function' = m.function
           /\ changed' = (changed \/ m.fired # <<>>)
           /\ tried' = Append(tried, [node |-> next.node,
                                      successors |-> Len(function.succ[next.node]),
                                      rules |-> m.rules,
                                      fired |-> m.fired])
    /\ UNCHANGED <<root, loop_headers, dominators, sweeps, result, pc,
                   not_structure_vars>>

\* a variant of CollapseAgain: collapse calls match_blocks again whatever the
\* sweep reported
CollapseAgainRegardless ==
    /\ pc = "sweep"
    /\ DfsPostOrderNext(function, dfs_postorder).node = 0
    /\ dfs_postorder' = DfsPostOrderNext(function, dfs_postorder).state
    /\ pc' = "collapse"
    /\ UNCHANGED <<function, root, loop_headers, dominators, changed, tried,
                   sweeps, result, not_structure_vars>>

\* lib.rs:149, 152-154: the sweep is over and has changed the function, so
\* collapse calls match_blocks again
CollapseAgain ==
    /\ pc = "sweep"
    /\ DfsPostOrderNext(function, dfs_postorder).node = 0
    /\ changed
    /\ dfs_postorder' = DfsPostOrderNext(function, dfs_postorder).state
    /\ pc' = "collapse"
    /\ UNCHANGED <<function, root, loop_headers, dominators, changed, tried,
                   sweeps, result, not_structure_vars>>

\* lib.rs:149, 152-154: the sweep is over and has changed nothing, so
\* collapse returns
CollapseReturns ==
    /\ pc = "sweep"
    /\ DfsPostOrderNext(function, dfs_postorder).node = 0
    /\ ~changed
    /\ dfs_postorder' = DfsPostOrderNext(function, dfs_postorder).state
    /\ pc' = "structure"
    /\ UNCHANGED <<function, root, loop_headers, dominators, changed, tried,
                   sweeps, result, not_structure_vars>>

\* a variant of Structure that puts the comment after the statements
StructureCommentLast ==
    /\ pc = "structure"
    /\ root \in function.nodes
    /\ LET nodes == Cardinality(function.nodes)
       IN  result' = IF nodes # 1
                     THEN function.ast[root] \o <<Comment(nodes)>>
                     ELSE function.ast[root]
    /\ function' = RemoveBlock(function, root)
    /\ pc' = "done"
    /\ UNCHANGED <<root, loop_headers, dominators, dfs_postorder, changed,
                   tried, sweeps, not_structure_vars>>

\* lib.rs:158-176, structure after collapse: the root block is taken out of
\* the function; its statements are the result, after the comment when the
\* graph holds a number of nodes other than one
Structure ==
    /\ pc = "structure"
    /\ root \in function.nodes
    /\ LET nodes == Cardinality(function.nodes)
       IN  result' = IF nodes # 1
                     THEN <<Comment(nodes)>> \o function.ast[root]
                     ELSE function.ast[root]
    /\ function' = RemoveBlock(function, root)
    /\ pc' = "done"
    /\ UNCHANGED <<root, loop_headers, dominators, dfs_postorder, changed,
                   tried, sweeps, not_structure_vars>>

NextStructure ==
    \/ NewStructurer
    \/ MatchBlocks
    \/ VisitNode
    \/ CollapseAgain
    \/ CollapseReturns
    \/ Structure

SpecStructure == InitStructure /\ [][NextStructure]_vars

\* the visited node is a block of the function, and a block that ends in a
\* conditional jump ends in its If
StructureTypeOK ==
    (pc \in {"collapse", "sweep", "structure"}) =>
        /\ root \in function.nodes
        /\ \A n \in function.nodes :
              /\ Range(function.succ[n]) \subseteq function.nodes
              /\ Len(function.succ[n]) = 2 =>
                     /\ function.ast[n] # <<>>
                     /\ function.ast[n][Len(function.ast[n])].kind = "If"

\* the order the rules are to be tried in at a node with k successors
RuleOrder(k) ==
    IF k = 2 THEN <<"compound", "loop", "conditional">>
    ELSE IF k = 1 THEN <<"loop", "jump">> ELSE <<"loop">>

\* C13: at each node visit of a sweep the rules are tried in the order
\* compound conditional (two successors only), loop collapse, then jump
\* collapse (one successor) or the conditional rule (two successors); the
\* visit stops at the first rule that reports a change, so at most one rule
\* fires at a node, and a node is visited at most once in a sweep.
C13_RuleOrderAndFirstMatchWins ==
    (pc \in {"sweep", "collapse", "structure", "done"}) =>
        \A i \in DOMAIN tried :
            LET t == tried[i]
                order == RuleOrder(t.successors)
            IN  /\ t.rules # <<>>
                /\ Len(t.rules) <= Len(order)
                /\ t.rules = SubSeq(order, 1, Len(t.rules))
                /\ Len(t.fired) <= 1
                /\ t.fired = <<>> => t.rules = order
                /\ t.fired # <<>> => t.fired[1] = t.rules[Len(t.rules)]
                /\ \A j \in DOMAIN tried : j # i => tried[j].node # t.node

\* one sweep in which the compound conditional rule fired at a node, a later
\* rule fired at a node after an earlier rule had failed there, and a node
\* went through all its rules without a change
C13_Witness ==
    /\ pc = "sweep"
    /\ \E i \in DOMAIN tried : tried[i].fired = <<"compound">>
    /\ \E i \in DOMAIN tried : tried[i].fired = <<>>
    /\ \E i \in DOMAIN tried :
          tried[i].fired # <<>> /\ Len(tried[i].rules) > 1

\* the number of edges of the graph of a function
RECURSIVE EdgeCountOver(_, _)
EdgeCountOver(f, set) ==
    IF set = {} THEN 0
    ELSE LET x == CHOOSE y \in set : TRUE
         IN  Len(f.succ[x]) + EdgeCountOver(f, set \ {x})

EdgeCount(f) == EdgeCountOver(f, f.nodes)

\* this step is a visit of the sweep at which a rule reported a change
RuleFired ==
    /\ pc = "sweep"
    /\ tried' # tried
    /\ tried'[Len(tried')].fired # <<>>

\* C14 as claimed: every rule application that reports a change strictly
\* reduces the node count or the number of two-successor nodes.
C14_ChangeReducesNodesOrConditionals ==
    [][RuleFired =>
          \/ Cardinality(function'.nodes) < Cardinality(function.nodes)
          \/ ConditionalCount(function') < ConditionalCount(function)]_vars

\* C14 as amended: every rule application that reports a change strictly
\* reduces the node count or, the node count staying as it is, the number
\* of edges; so the sweeps that report a change are at most as many as the
\* nodes and edges of the input, and collapse returns after one more.
C14_ChangeReducesNodesOrEdges ==
    /\ [][RuleFired =>
             \/ Cardinality(function'.nodes) < Cardinality(function.nodes)
             \/ /\ Cardinality(function'.nodes) = Cardinality(function.nodes)
                /\ EdgeCount(function') < EdgeCount(function)]_vars
    /\ [](pc \in {"collapse", "sweep", "structure"} =>
             sweeps + Cardinality(function.nodes) + EdgeCount(function)
                 <= 3 * MaxNodes + 1)

\* collapse has returned after three sweeps that changed the function, one
\* of them by collapsing a loop
C14_Witness ==
    /\ pc = "structure"
    /\ sweeps >= 4
    /\ Cardinality(function.nodes) = 1
    /\ function.ast[root][1].kind = "While"

\* no statement of the block is a Comment
NoComment(block) == \A i \in DOMAIN block : block[i].kind # "Comment"

C16_EveryRemainingBlockInResult ==
    (pc = "done" /\ function.nodes # {}) =>
        \A n \in function.nodes :
            \A i \in DOMAIN function.ast[n] :
                \E j \in DOMAIN result : j > 1 /\ result[j] = function.ast[n][i]

\* ============================================ CFG to AST lifter (lifter.rs)
\* The statements lift_block makes: an Assign to the local of a value, the
\* If shell, a Return, and the While around the body of a loop header.
AssignStatement(dest) == [kind |-> "Assign", n |-> dest]

ReturnStatement(values) == [kind |-> "Return", values |-> values]

\* the CFG-IR function handed to the lifter: the graph of g; a block of
\* `loaded` holds one LoadConstant into its own value, the others hold no
\* inner instruction; the terminator follows the successors: a Return (of
\* the block's value, when it has one), an UnconditionalJump, or a
\* ConditionalJump on the block's condition value
IrFunctionOf(g, loaded) ==
    [nodes |-> g.nodes,
     succ |-> g.succ,
     inner |-> [n \in g.nodes |->
                   IF n \in loaded
                   THEN <<[kind |-> "LoadConstant", dest |-> n]>> ELSE <<>>],
     terminator |-> [n \in g.nodes |->
                   IF Len(g.succ[n]) = 0
                   THEN [kind |-> "Return",
                         values |-> IF n \in loaded THEN <<n>> ELSE <<>>]
                   ELSE IF Len(g.succ[n]) = 1
                   THEN [kind |-> "UnconditionalJump"]
                   ELSE [kind |-> "ConditionalJump", condition |-> n]]]

LifterInput(f) ==
    \E g \in FlowGraphs : \E loaded \in SUBSET g.nodes : f = IrFunctionOf(g, loaded)

\* lifter.rs:104-144, lift_block: an Assign for every LoadConstant and Move,
\* nothing for an UnconditionalJump, the If shell for a ConditionalJump,
\* return_statement() (lifter.rs:32-37: no values) for a Return; the body of
\* a loop header goes into a While
lift_block(f, node, is_while) ==
    LET inner == [i \in DOMAIN f.inner[node] |-> AssignStatement(f.inner[node][i].dest)]
        terminator == f.terminator[node]
        body == inner \o
                (IF terminator.kind = "ConditionalJump"
                 THEN <<IfStatement(Local(terminator.condition), <<>>, <<>>)>>
                 ELSE IF terminator.kind = "Return"
                 THEN <<ReturnStatement(<<>>)>>
                 ELSE <<>>)
    IN  IF is_while THEN <<WhileStatement(body)>> ELSE body

\* graph::algorithms::dominators::post_dominator_tree(graph, root, dfs_tree)
\* as node -> its predecessor in the tree: the immediate post-dominator on
\* the graph with a synthetic exit, for the nodes reachable from the root;
\* the synthetic exit is no node of the tree
post_dominator_tree(g, r) ==
    LET all == post_dominators(g)
    IN  [n \in {x \in DOMAIN all \cap ReachFrom(g, r) : all[x] \in g.nodes} |-> all[n]]

\* the Links of lifter.rs:65-70
Extend(target) == [link |-> "Extend", target |-> target]

IfLink(true_branch, false_branch, exit) ==
    [link |-> "If", true_branch |-> true_branch, false_branch |-> false_branch,
     exit |-> exit]

BreakLink == [link |-> "Break"]

NoLink == [link |-> "None"]

\* lifter.rs:146-166, Lifter::edge: hands back the Link and the stack
edge(stk, seen, stop_set, exits, target) ==
    IF target \notin stop_set
    THEN IF target \notin Range(seen)
         THEN [stack |-> Append(stk, target), link |-> Extend(target)]
         ELSE [stack |-> stk, link |-> NoLink]
    ELSE IF target \in exits
         THEN [stack |-> stk, link |-> BreakLink]
         ELSE [stack |-> stk, link |-> NoLink]

\* a panic of lift: the node at hand and the line of lifter.rs
Panic(node, line) == [panic |-> TRUE, node |-> node, line |-> line]

NoPanic == [panic |-> FALSE, node |-> 0, line |-> 0]

\* blocks.remove(&node)
WithoutBlock(blks, node) == [n \in DOMAIN blks \ {node} |-> blks[n]]

\* lifter.rs:265-291: the If shell is the last statement of the block of the
\* node, or the first statement of the body of the While that is the last
\* statement; the branches are appended to its then and else blocks
HasIfShell(block) ==
    /\ block # <<>>
    /\ \/ block[Len(block)].kind = "If"
       \/ /\ block[Len(block)].kind = "While"
          /\ block[Len(block)].body # <<>>
          /\ block[Len(block)].body[1].kind = "If"

ExtendedIf(if_stat, then_statements, else_statements) ==
    IfStatement(if_stat.condition, if_stat.then_block \o then_statements,
                if_stat.else_block \o else_statements)

WithBranches(block, then_statements, else_statements) ==
    LET last == block[Len(block)]
    IN  IF last.kind = "If"
        THEN WithLastIf(block, ExtendedIf(last, then_statements, else_statements))
        ELSE Append(SubSeq(block, 1, Len(block) - 1),
                    WhileStatement(<<ExtendedIf(last.body[1], then_statements,
                                                else_statements)>>
                                   \o SubSeq(last.body, 2, Len(last.body))))

\* lifter.rs:252-311, one turn of the loop over the visited nodes: what the
\* link of the node does to the blocks, or the panic
FoldLink(blks, node, link) ==
    IF link.link = "If"
    THEN IF link.true_branch.link # "Extend"
         THEN [blocks |-> blks, panic |-> Panic(node, 258)]
         ELSE IF link.true_branch.target \notin DOMAIN blks
         THEN [blocks |-> blks, panic |-> Panic(node, 256)]
         ELSE
         LET then_statements == blks[link.true_branch.target]
             b1 == WithoutBlock(blks, link.true_branch.target)
             false_branch == link.false_branch
         IN  IF false_branch # <<>> /\ false_branch[1].link \notin {"Extend", "Break"}
             THEN [blocks |-> b1, panic |-> Panic(node, 263)]
             ELSE IF /\ false_branch # <<>>
                     /\ false_branch[1].link = "Extend"
                     /\ false_branch[1].target \notin DOMAIN b1
             THEN [blocks |-> b1, panic |-> Panic(node, 261)]
             ELSE
             LET extends == false_branch # <<>> /\ false_branch[1].link = "Extend"
                 else_statements ==
                     IF false_branch = <<>> THEN <<>>
                     ELSE IF extends THEN b1[false_branch[1].target]
                     ELSE <<BreakStatement>>
                 b2 == IF extends THEN WithoutBlock(b1, false_branch[1].target) ELSE b1
             IN  IF node \notin DOMAIN b2
                 THEN [blocks |-> b2, panic |-> Panic(node, 268)]
                 ELSE IF ~HasIfShell(b2[node])
                 THEN [blocks |-> b2, panic |-> Panic(node, 277)]
                 ELSE
                 LET b3 == [b2 EXCEPT ![node] =
                               WithBranches(b2[node], then_statements, else_statements)]
                 IN  IF link.exit = <<>>
                     THEN [blocks |-> b3, panic |-> NoPanic]
                     ELSE IF link.exit[1] \notin DOMAIN b3
                     THEN [blocks |-> b3, panic |-> Panic(node, 293)]
                     ELSE [blocks |-> [WithoutBlock(b3, link.exit[1]) EXCEPT
                                         ![node] = b3[node] \o b3[link.exit[1]]],
                           panic |-> NoPanic]
    ELSE IF link.link = "Extend"
    THEN IF link.target \notin DOMAIN blks
         THEN [blocks |-> blks, panic |-> Panic(node, 302)]
         ELSE IF node \notin DOMAIN blks \/ node = link.target
         THEN [blocks |-> blks, panic |-> Panic(node, 304)]
         ELSE [blocks |-> [WithoutBlock(blks, link.target) EXCEPT
                             ![node] = blks[node] \o blks[link.target]],
               panic |-> NoPanic]
    ELSE IF link.link = "Break"
    THEN IF node \notin DOMAIN blks
         THEN [blocks |-> blks, panic |-> Panic(node, 309)]
         ELSE [blocks |-> [blks EXCEPT ![node] = Append(blks[node], BreakStatement)],
               panic |-> NoPanic]
    ELSE [blocks |-> blks, panic |-> NoPanic]

\* lifter.rs:251, the loop: the visited nodes, the last one first
RECURSIVE FoldLinks(_, _, _, _)
FoldLinks(blks, seen, lnks, i) ==
    IF i = 0 THEN [blocks |-> blks, panic |-> NoPanic]
    ELSE LET folded == FoldLink(blks, seen[i], lnks[seen[i]])
         IN  IF folded.panic.panic THEN folded
             ELSE FoldLinks(folded.blocks, seen, lnks, i - 1)

\* a call of Lifter::lift(root) on a function; the root is its entry block
InitLift ==
    /\ LifterInput(function)
    /\ pc = "lift"
    /\ root = 1
    /\ loop_headers = Unused
    /\ post_dom_tree = Unused
    /\ loop_exits = Unused
    /\ blocks = Unused
    /\ links = Unused
    /\ stack = Unused
    /\ visited = Unused
    /\ stops = Unused
    /\ result = NoPanic
    /\ ConstructUnused
    /\ AnalysesUnused
    /\ graph = Unused
    /\ dominators = Unused
    /\ dfs_postorder = Unused
    /\ changed = Unused
    /\ tried = Unused
    /\ sweeps = Unused

not_lift_vars == <<construct_vars, graph, dominators, dfs_postorder, changed,
                   tried, sweeps, analyses_vars>>

\* lifter.rs:168-194: the loop headers are the destinations of the back
\* edges, the loop exits their predecessors in the post-dominator tree, every
\* block is lifted, and the traversal starts at the root
LiftBlocks ==
    /\ pc = "lift"
    /\ loop_headers' = BackEdgeDestinations(function, root)
    /\ post_dom_tree' = post_dominator_tree(function, root)
    /\ loop_exits' = {post_dom_tree'[n] : n \in loop_headers' \cap DOMAIN post_dom_tree'}
    /\ blocks' = [n \in function.nodes |-> lift_block(function, n, n \in loop_headers')]
    /\ links' = <<>>
    /\ stack' = <<root>>
    /\ visited' = <<>>
    /\ stops' = {}
    /\ pc' = "visit"
    /\ UNCHANGED <<function, root, result, not_lift_vars>>

\* lifter.rs:208-243, the two-successor arm: the exit is the predecessor of
\* the node in the post-dominator tree; it must not be the first successor;
\* it is pushed and becomes a stop; there is no else when the second
\* successor is the exit and the exit is no loop exit
ConditionalLink(node, successors, seen) ==
    LET exit == IF node \in DOMAIN post_dom_tree THEN <<post_dom_tree[node]>> ELSE <<>>
        stack1 == IF exit = <<>> THEN SubSeq(stack, 1, Len(stack) - 1)
                  ELSE Append(SubSeq(stack, 1, Len(stack) - 1), exit[1])
        stops1 == IF exit = <<>> THEN stops ELSE stops \cup {exit[1]}
        has_else == ~(exit # <<>> /\ successors[2] = exit[1] /\ exit[1] \notin loop_exits)
        true_branch == edge(stack1, seen, stops1, loop_exits, successors[1])
        false_branch == edge(true_branch.stack, seen, stops1, loop_exits, successors[2])
    IN  IF exit # <<>> /\ successors[1] = exit[1]
        THEN [panic |-> Panic(node, 212), stack |-> stack, stops |-> stops,
              link |-> NoLink]
        ELSE [panic |-> NoPanic,
              stack |-> IF has_else THEN false_branch.stack ELSE true_branch.stack,
              stops |-> stops1,
              link |-> IfLink(true_branch.link,
                              IF has_else THEN <<false_branch.link>> ELSE <<>>, exit)]

\* lifter.rs:196-247, one turn of the traversal: the node on top of the stack
\* is visited and gets its link
VisitLink ==
    /\ pc = "visit"
    /\ stack # <<>>
    /\ LET node == stack[Len(stack)]
           popped == SubSeq(stack, 1, Len(stack) - 1)
           seen == Append(visited, node)
           successors == function.succ[node]
       IN  IF node \in Range(visited)
           THEN /\ result' = Panic(node, 197)
                /\ pc' = "panicked"
                /\ stack' = popped
                /\ UNCHANGED <<visited, stops, links>>
           ELSE IF Len(successors) = 0
           THEN /\ links' = (node :> NoLink) @@ links
                /\ stack' = popped
                /\ visited' = seen
                /\ UNCHANGED <<stops, result, pc>>
           ELSE IF Len(successors) = 1
           THEN LET e == edge(popped, seen, stops, loop_exits, successors[1])
                IN  /\ links' = (node :> e.link) @@ links
                    /\ stack' = e.stack
                    /\ visited' = seen
                    /\ UNCHANGED <<stops, result, pc>>
           ELSE LET c == ConditionalLink(node, successors, seen)
                IN  IF c.panic.panic
                    THEN /\ result' = c.panic
                         /\ pc' = "panicked"
                         /\ stack' = popped
                         /\ visited' = seen
                         /\ UNCHANGED <<stops, links>>
                    ELSE /\ links' = (node :> c.link) @@ links
                         /\ stack' = c.stack
                         /\ stops' = c.stops
                         /\ visited' = seen
                         /\ UNCHANGED <<result, pc>>
    /\ UNCHANGED <<function, root, loop_headers, post_dom_tree, loop_exits, blocks,
                   not_lift_vars>>

\* lifter.rs:251-317: the links are folded into the blocks, the last visited
\* node first, and the block of the root is the body of the function
Assemble ==
    /\ pc = "visit"
    /\ stack = <<>>
    /\ LET folded == FoldLinks(blocks, visited, links, Len(visited))
       IN  /\ blocks' = folded.blocks
           /\ IF folded.panic.panic
              THEN result' = folded.panic /\ pc' = "panicked"
              ELSE IF root \notin DOMAIN folded.blocks
              THEN result' = Panic(root, 314) /\ pc' = "panicked"
              ELSE result' = [panic |-> FALSE, node |-> 0, line |-> 0,
                              body |-> folded.blocks[root]]
                   /\ pc' = "lifted"
    /\ UNCHANGED <<function, root, loop_headers, post_dom_tree, loop_exits, links,
                   stack, visited, stops, not_lift_vars>>

NextLift ==
    \/ LiftBlocks
    \/ VisitLink
    \/ Assemble

SpecLift == InitLift /\ [][NextLift]_vars

LiftTypeOK ==
    /\ pc \in {"lift", "visit", "panicked", "lifted"}
    /\ pc = "panicked" <=> result.panic
    /\ pc \in {"visit", "lifted"} => Range(visited) \subseteq function.nodes

\* the immediate post-dominator of n: the strict post-dominator that every
\* other strict post-dominator of n post-dominates (a set of at most one)
ImmediatePostDominators(g, n) ==
    {x \in StrictPostDominators(g, n) :
        \A y \in StrictPostDominators(g, n) \ {x} : PostDominates(g, y, x)}

\* the If statements of a block, at any depth
RECURSIVE IfsIn(_)
IfsIn(block) ==
    UNION {IF s.kind = "If"
           THEN {s} \cup IfsIn(s.then_block) \cup IfsIn(s.else_block)
           ELSE IF s.kind = "While" THEN IfsIn(s.body) ELSE {} : s \in Range(block)}

\* n is a conditional node whose then-target is its immediate post-dominator
ThenTargetIsExit(f, n) ==
    /\ Len(f.succ[n]) = 2
    /\ f.succ[n][1] \in ImmediatePostDominators(f, n)

\* C18: a conditional node n whose then-target is its own immediate
\* post-dominator does not make the lifter fail, and once the function is
\* lifted the node is an If on the negated condition of n.
C18_ThenTargetIsExitLifted ==
    \A n \in function.nodes :
        ThenTargetIsExit(function, n) =>
            /\ ~(pc = "panicked" /\ result.node = n)
            /\ (pc = "lifted" /\ n \in Range(visited)) =>
                  \E if_stat \in IfsIn(result.body) : if_stat.condition = Not(Local(n))

\* the loops n is inside of, as their headers: h is the destination of a
\* back edge, dominates n, and n reaches h
LoopsAround(f, n) ==
    {h \in BackEdgeDestinations(f, 1) : OnEveryPath(f, 1, h, n) /\ h \in ReachFrom(f, n)
                                          /\ (h = n => n \in UNION {ReachFrom(f, m) : m \in Neighbors(f, n)})}

\* the header of the innermost loop around n (a set of at most one)
EnclosingLoopHeader(f, n) ==
    {h \in LoopsAround(f, n) :
        \A other \in LoopsAround(f, n) : OnEveryPath(f, 1, other, h)}

\* branch i (1: then, 2: else) of the conditional node n goes to the exit of
\* the loop around n
BranchToLoopExit(f, n, i) ==
    /\ Len(f.succ[n]) = 2
    /\ \E h \in EnclosingLoopHeader(f, n) : f.succ[n][i] \in ImmediatePostDominators(f, h)

BranchOf(if_stat, i) == IF i = 1 THEN if_stat.then_block ELSE if_stat.else_block

\* C19: a branch, then or else, of a conditional node n inside a loop that
\* goes to the loop exit (the immediate post-dominator of the header of the
\* loop) does not make the lifter fail, and once the function is lifted that
\* branch of the If of n is a single Break, the statements of the target not
\* being inlined into it.
C19_BranchToLoopExitIsBreak ==
    \A n \in function.nodes : \A i \in {1, 2} :
        BranchToLoopExit(function, n, i) =>
            /\ ~(pc = "panicked" /\ result.node = n)
            /\ (pc = "lifted" /\ n \in Range(visited)) =>
                  \E if_stat \in IfsIn(result.body) :
                      /\ if_stat.condition = Local(n)
                      /\ BranchOf(if_stat, i) = <<BreakStatement>>

\* what lift_block made of block n, outside the While of a loop header
LiftedBody(n) == IF n \in loop_headers THEN blocks[n][1].body ELSE blocks[n]

\* the statements lift_block added for the terminator of block n
TerminatorStatements(n) ==
    SubSeq(LiftedBody(n), Len(function.inner[n]) + 1, Len(LiftedBody(n)))

\* C20: when lift_block has lifted the blocks, an UnconditionalJump has
\* added no statement, a ConditionalJump one If on the local of its condition
\* with empty then and else blocks, and a Return one Return statement that
\* carries the values of the terminator.
C20_TerminatorTranslation ==
    (pc = "visit" /\ visited = <<>>) =>
        \A n \in function.nodes :
            LET terminator == function.terminator[n]
            IN  /\ terminator.kind = "UnconditionalJump" =>
                      TerminatorStatements(n) = <<>>
                /\ terminator.kind = "ConditionalJump" =>
                      TerminatorStatements(n) =
                          <<IfStatement(Local(terminator.condition), <<>>, <<>>)>>
                /\ terminator.kind = "Return" =>
                      TerminatorStatements(n) = <<ReturnStatement(terminator.values)>>

\* ================================== upvalue analysis (cfg/ssa/upvalues.rs)
\* The locals of the function after SSA renaming, and the pre-SSA original
\* of each: 1 and 2 descend from 1, 3 is its own original.
Locals == {1, 2, 3}

OldLocals == [l \in Locals |-> IF l = 2 THEN 1 ELSE l]

\* the statements the analysis tells apart: one whose rvalues hold a Closure
\* that captures `locals`, and a Close of `locals`
ClosureStatement(locals) == [kind |-> "Closure", locals |-> locals]

CloseStatement(locals) == [kind |-> "Close", locals |-> locals]

UpvalueStatements ==
    {ClosureStatement(<<2>>), ClosureStatement(<<3>>), CloseStatement(<<1>>)}

\* upvalues.rs:7-15
statement_upvalues_opened(statement) ==
    IF statement.kind = "Closure" THEN statement.locals ELSE <<>>

\* upvalues.rs:17-23
statement_upvalues_closed(statement) ==
    IF statement.kind = "Close" THEN statement.locals ELSE <<>>

\* the block contents of a function of the graph g: at most MaxStatements
\* statements in all
RECURSIVE AstsOf(_, _, _)
AstsOf(g, todo, left) ==
    IF todo = {} THEN {<<>>}
    ELSE LET n == CHOOSE x \in todo : \A y \in todo : x >= y
             lists == UNION {[1..k -> UpvalueStatements] : k \in 0..left}
         IN  UNION {{[m \in 1..n |-> IF m = n THEN list ELSE rest[m]] :
                        rest \in AstsOf(g, todo \ {n}, left - Len(list))} :
                    list \in lists}

UpvaluesInput(f) ==
    \E g \in FlowGraphs : \E ast \in AstsOf(g, g.nodes, MaxStatements) :
        f = [nodes |-> g.nodes, succ |-> g.succ, ast |-> ast]

\* this.open.entry(node).or_default()
OpenAt(opn, node) == IF node \in DOMAIN opn THEN opn[node] ELSE {}

\* upvalues.rs:44-60: the statements of the block at `node`, from index
\* `from` (counted from 0) on, applied to the set open for the block: a
\* statement that opens upvalues adds them with its place, any other
\* statement removes the entries whose original it closes
RECURSIVE BlockOpened(_, _, _, _, _)
BlockOpened(olds, ast, node, from, block_opened) ==
    IF from >= Len(ast) THEN block_opened
    ELSE LET statement == ast[from + 1]
             statement_opened == statement_upvalues_opened(statement)
             statement_closed == statement_upvalues_closed(statement)
         IN  BlockOpened(olds, ast, node, from + 1,
                 IF statement_opened # <<>>
                 THEN block_opened \cup
                      {<<opened, <<node, from>>>> : opened \in Range(statement_opened)}
                 ELSE {e \in block_opened : olds[e[1]] \notin Range(statement_closed)})

\* upvalues.rs:61-71: every successor that is not visited inherits the set
\* open at the end of the block and is pushed
RECURSIVE Inherit(_, _, _, _, _, _)
Inherit(opn, stk, seen, node, successors, i) ==
    IF i > Len(successors) THEN [open |-> opn, stack |-> stk]
    ELSE LET successor == successors[i]
         IN  IF successor \notin seen
             THEN Inherit((successor :> (OpenAt(opn, successor) \cup opn[node])) @@ opn,
                          Append(stk, successor), seen, node, successors, i + 1)
             ELSE Inherit(opn, stk, seen, node, successors, i + 1)

InitUpvalues ==
    /\ UpvaluesInput(function)
    /\ old_locals = OldLocals
    /\ pc = "new"
    /\ open = Unused
    /\ raw = Unused
    /\ stack = Unused
    /\ visited = Unused
    /\ result = Unused
    /\ ConstructUnused
    /\ graph = Unused
    /\ blocks = Unused
    /\ root = Unused
    /\ loop_headers = Unused
    /\ dominators = Unused
    /\ dfs_postorder = Unused
    /\ changed = Unused
    /\ tried = Unused
    /\ sweeps = Unused
    /\ post_dom_tree = Unused
    /\ loop_exits = Unused
    /\ stops = Unused
    /\ links = Unused

not_upvalues_vars == <<construct_vars, graph, blocks, root, loop_headers,
                       dominators, dfs_postorder, changed, tried, sweeps,
                       post_dom_tree, loop_exits, stops, links, raw>>

\* upvalues.rs:32-39, UpvaluesOpen::new up to its loop: nothing is open, the
\* entry is on the stack
UpvaluesNew ==
    /\ pc = "new"
    /\ open' = <<>>
    /\ stack' = <<1>>
    /\ visited' = {}
    /\ pc' = "visit"
    /\ UNCHANGED <<function, old_locals, result, not_upvalues_vars>>

\* upvalues.rs:40-73, one turn of the loop: the node on top of the stack is
\* visited, its statements are applied to its set, its unvisited successors
\* inherit the set; with the stack empty, new returns
VisitBlock ==
    /\ pc = "visit"
    /\ stack # <<>>
    /\ LET node == stack[Len(stack)]
           seen == visited \cup {node}
           block_opened == BlockOpened(old_locals, function.ast[node], node, 0,
                                       OpenAt(open, node))
           inherited == Inherit((node :> block_opened) @@ open,
                                SubSeq(stack, 1, Len(stack) - 1), seen, node,
                                function.succ[node], 1)
       IN  /\ visited' = seen
           /\ open' = inherited.open
           /\ stack' = inherited.stack
           /\ pc' = IF inherited.stack = <<>> THEN "built" ELSE "visit"
    /\ UNCHANGED <<function, old_locals, result, not_upvalues_vars>>

\* what find_open hands back: Some(local), None, or the panic of an index
\* into self.open with a key it does not have
Found(node, index, local, found) ==
    [node |-> node, index |-> index, local |-> local, found |-> found,
     panic |-> FALSE]

FindPanic(node, index, local) ==
    [node |-> node, index |-> index, local |-> local, found |-> <<>>,
     panic |-> TRUE]

\* upvalues.rs:84-90: the entries of the block with the original of the
\* queried local that were opened in the block before the index
SameBlock(opn, olds, node, index, local) ==
    {e \in opn[node] : /\ olds[e[1]] = olds[local]
                        /\ e[2][1] = node
                        /\ e[2][2] < index}

\* upvalues.rs:92-99: the entries with the original of the queried local in
\* the set of a predecessor
FromPredecessor(opn, olds, pred, local) ==
    {e \in opn[pred] : olds[e[1]] = olds[local]}

\* upvalues.rs:76-100, find_open: the outcomes it can have; the sets are
\* hash sets, so any entry that fits can be the one found
find_open(f, opn, olds, node, index, local) ==
    IF node \notin DOMAIN opn THEN {FindPanic(node, index, local)}
    ELSE IF SameBlock(opn, olds, node, index, local) # {}
    THEN {Found(node, index, local, <<e[1]>>) :
             e \in SameBlock(opn, olds, node, index, local)}
    ELSE LET preds == Sources(f, node)
             known == preds \cap DOMAIN opn
             fits == {p \in known : FromPredecessor(opn, olds, p, local) # {}}
         IN  IF fits = {}
             THEN IF preds \subseteq DOMAIN opn
                  THEN {Found(node, index, local, <<>>)}
                  ELSE {FindPanic(node, index, local)}
             ELSE {Found(node, index, local, <<e[1]>>) :
                      e \in UNION {FromPredecessor(opn, olds, p, local) : p \in fits}}
                  \cup (IF preds \subseteq DOMAIN opn THEN {}
                        ELSE {FindPanic(node, index, local)})

\* a call of find_open on the analysis new has built, for a statement index
\* of a block and a local of the function
FindOpen ==
    /\ pc = "built"
    /\ \E node \in function.nodes : \E index \in 0..Len(function.ast[node]) :
           \E local \in {1, 3} :
               result' \in find_open(function, open, old_locals, node, index, local)
    /\ pc' = "found"
    /\ UNCHANGED <<function, old_locals, open, stack, visited, not_upvalues_vars>>

NextUpvalues ==
    \/ UpvaluesNew
    \/ VisitBlock
    \/ FindOpen

SpecUpvalues == InitUpvalues /\ [][NextUpvalues]_vars

UpvaluesTypeOK ==
    /\ pc \in {"new", "visit", "built", "found"}
    /\ pc \in {"visit", "built", "found"} => visited \subseteq function.nodes

\* the originals the Close statements of a block close
ClosedIn(ast) ==
    UNION {Range(statement_upvalues_closed(ast[i])) : i \in DOMAIN ast}

\* C21: when UpvaluesOpen::new has returned, for every edge P -> S between
\* blocks reachable from the entry, every entry recorded as open at the end
\* of P is recorded as open for S, unless a Close statement of S closes its
\* original; whatever the order in which P and S were visited.
C21_OpenFlowsAlongEveryEdge ==
    pc = "built" =>
        \A P \in ReachFrom(function, 1) : \A S \in Neighbors(function, P) :
            \A e \in open[P] :
                \/ e \in open[S]
                \/ old_locals[e[1]] \in ClosedIn(function.ast[S])

\* the locals with the original of `local` that are recorded as opened in
\* the block `node` at a statement index below `index`
OpenedBefore(node, index, local) ==
    {e[1] : e \in {x \in OpenAt(open, node) :
                      /\ old_locals[x[1]] = old_locals[local]
                      /\ x[2] [1] = node
                      /\ x[2] [2] < index}}

\* the locals with the original of `local` that are recorded as open at the
\* end of a predecessor of `node`
OpenInPredecessor(node, local) ==
    {e[1] : e \in {x \in UNION {OpenAt(open, p) : p \in Sources(function, node)} :
                      old_locals[x[1]] = old_locals[local]}}

\* what C22 says of the answer of find_open
FindOpenAnswer ==
    /\ ~result.panic
    /\ result.found # <<>> =>
          old_locals[result.found[1]] = old_locals[result.local]
    /\ IF OpenedBefore(result.node, result.index, result.local) # {}
       THEN /\ result.found # <<>>
            /\ result.found[1] \in OpenedBefore(result.node, result.index, result.local)
       ELSE IF OpenInPredecessor(result.node, result.local) # {}
       THEN /\ result.found # <<>>
            /\ result.found[1] \in OpenInPredecessor(result.node, result.local)
       ELSE result.found = <<>>

\* C22: find_open(node, index, local) returns only a local with the original
\* of the queried local: one opened in the same block at a statement index
\* below index when there is such an entry, otherwise one open at the end of
\* a predecessor, and none when there is neither (for a query on a block
\* that is reachable from the entry).
C22_FindOpenAnswer ==
    (pc = "found" /\ result.node \in ReachFrom(function, 1)) => FindOpenAnswer

\* the answer is as described when the predecessors of the block are
\* reachable from the entry as well
FindOpenAnswerWhenReachable ==
    (/\ pc = "found"
     /\ {result.node} \cup Sources(function, result.node) \subseteq ReachFrom(function, 1))
        => FindOpenAnswer

\* ==================== instruction parser (lua51-deserializer instruction)
\* The operation codes of Lua 5.1 in the order of their discriminants, 0 to
\* 37, by the names Instruction::parse matches on.
OperationCodes ==
    <<"Move", "LoadConstant", "LoadBoolean", "LoadNil", "GetUpvalue",
      "GetGlobal", "GetTable", "SetGlobal", "SetUpvalue", "SetTable",
      "NewTable", "Self_", "Add", "Subtract", "Multiply", "Divide", "Modulo",
      "Power", "Minus", "Not", "Length", "Concatenate", "Jump", "Equal",
      "LessThan", "LessThanOrEqual", "Test", "TestSet", "Call", "TailCall",
      "Return", "IterateNumericForLoop", "PrepareNumericForLoop",
      "IterateGenericForLoop", "SetList", "Close", "Closure", "VarArg">>

\* the layout Layout::parse decodes the arguments of an operation code in:
\* ABC (A:8, B:9, C:9), ABx (A:8, Bx:18) or AsBx (A:8, sBx:18)
StandardLayout(op) ==
    IF op \in {"LoadConstant", "GetGlobal", "SetGlobal", "Closure"} THEN "ABx"
    ELSE IF op \in {"Jump", "IterateNumericForLoop", "PrepareNumericForLoop"}
    THEN "AsBx"
    ELSE "ABC"

\* the variant of Instruction that stands for an operation code
VariantOf(op) ==
    IF op = "Subtract" THEN "Sub"
    ELSE IF op = "Multiply" THEN "Mul"
    ELSE IF op = "Divide" THEN "Div"
    ELSE IF op = "Modulo" THEN "Mod"
    ELSE IF op = "Power" THEN "Pow"
    ELSE op

\* the values of the argument fields the inputs are drawn from: the ends of
\* each range, the high bit of B and C, and A around 255 - 4
FieldA == {0, 1, 251, 252, 255}

FieldBC == {0, 1, 255, 256, 511}

FieldBx == {0, 262143}

FieldSBx == {0 - 131071, 0, 131072}

RawInstruction(op, layout, a, b, c, bx, sbx) ==
    [op |-> op, layout |-> layout, a |-> a, b |-> b, c |-> c, bx |-> bx,
     sbx |-> sbx]

\* the arguments of mod.rs (argument.rs)
Register(n) == [kind |-> "Register", n |-> n]

ConstantIndex(n) == [kind |-> "Constant", n |-> n]

Upvalue(n) == [kind |-> "Upvalue", n |-> n]

FunctionIndex(n) == [kind |-> "Function", n |-> n]

\* RegisterOrConstant::from: an operand with the high bit (256) set is a
\* constant index
RegisterOrConstant(x) == IF x >= 256 THEN ConstantIndex(x - 256) ELSE Register(x)

\* `x as u8`
AsU8(x) == x % 256

\* (from..=to).map(Register).collect()
Registers(from, to) ==
    IF from > to THEN <<>> ELSE [i \in 1..(to - from + 1) |-> Register(from + i - 1)]

\* (b..c).map(|r| Register(r as u8)).collect()
RegistersAsU8(from, to) ==
    IF from >= to THEN <<>> ELSE [i \in 1..(to - from) |-> Register(AsU8(from + i - 1))]

\* the outcomes of Instruction::parse
Ok(variant, fields) == [status |-> "Ok", variant |-> variant, fields |-> fields]

Failure == [status |-> "Failure", variant |-> "", fields |-> <<>>]

Panicked == [status |-> "Panic", variant |-> "", fields |-> <<>>]

\* mod.rs:331-342, `(a..=a + 4).map(Register).collect()` with a of type u8:
\* the sum is in range, or it overflows, and then a build with overflow
\* checks panics and a build without them wraps the sum around
ControlRange(variant, a, sbx) ==
    IF a + 4 <= 255
    THEN {Ok(variant, [control |-> Registers(a, a + 4), step |-> sbx])}
    ELSE {Panicked,
          Ok(variant, [control |-> Registers(a, (a + 4) % 256), step |-> sbx])}

\* mod.rs:186-372, Instruction::parse after RawInstruction::parse: the set of
\* its outcomes for a RawInstruction
parse(raw_) ==
    CASE raw_.op = "Move" /\ raw_.layout = "ABC" ->
           {Ok("Move", [destination |-> Register(raw_.a), source |-> Register(AsU8(raw_.b))])}
    [] raw_.op = "LoadConstant" /\ raw_.layout = "ABx" ->
           {Ok("LoadConstant", [destination |-> Register(raw_.a), source |-> ConstantIndex(raw_.bx)])}
    [] raw_.op = "LoadBoolean" /\ raw_.layout = "ABC" ->
           {Ok("LoadBoolean", [destination |-> Register(raw_.a), value |-> raw_.b = 1, skip_next |-> raw_.c = 1])}
    [] raw_.op = "LoadNil" /\ raw_.layout = "ABC" ->
           {Ok("LoadNil", [registers |-> Registers(raw_.a, AsU8(raw_.b))])}
    [] raw_.op = "GetUpvalue" /\ raw_.layout = "ABC" ->
           {Ok("GetUpvalue", [destination |-> Register(raw_.a), upvalue |-> Upvalue(AsU8(raw_.b))])}
    [] raw_.op = "GetGlobal" /\ raw_.layout = "ABx" ->
           {Ok("GetGlobal", [destination |-> Register(raw_.a), global |-> ConstantIndex(raw_.bx)])}
    [] raw_.op = "GetTable" /\ raw_.layout = "ABC" ->
           {Ok("GetTable", [destination |-> Register(raw_.a), table |-> Register(AsU8(raw_.b)), key |-> RegisterOrConstant(raw_.c)])}
    [] raw_.op = "SetGlobal" /\ raw_.layout = "ABx" ->
           {Ok("SetGlobal", [destination |-> ConstantIndex(raw_.bx), value |-> Register(raw_.a)])}
    [] raw_.op = "SetTable" /\ raw_.layout = "ABC" ->
           {Ok("SetTable", [table |-> Register(raw_.a), key |-> RegisterOrConstant(raw_.b), value |-> RegisterOrConstant(raw_.c)])}
    [] raw_.op = "NewTable" /\ raw_.layout = "ABC" ->
           {Ok("NewTable", [destination |-> Register(raw_.a), array_size |-> AsU8(raw_.b), hash_size |-> AsU8(raw_.c)])}
    [] raw_.op = "Self_" /\ raw_.layout = "ABC" ->
           {Ok("Self_", [destination |-> Register(raw_.a), table |-> Register(AsU8(raw_.b)), method |-> RegisterOrConstant(raw_.c)])}
    [] raw_.op = "Add" /\ raw_.layout = "ABC" ->
           {Ok("Add", [destination |-> Register(raw_.a), lhs |-> RegisterOrConstant(raw_.b), rhs |-> RegisterOrConstant(raw_.c)])}
    [] raw_.op = "Subtract" /\ raw_.layout = "ABC" ->
           {Ok("Sub", [destination |-> Register(raw_.a), lhs |-> RegisterOrConstant(raw_.b), rhs |-> RegisterOrConstant(raw_.c)])}
    [] raw_.op = "Multiply" /\ raw_.layout = "ABC" ->
           {Ok("Mul", [destination |-> Register(raw_.a), lhs |-> RegisterOrConstant(raw_.b), rhs |-> RegisterOrConstant(raw_.c)])}
    [] raw_.op = "Divide" /\ raw_.layout = "ABC" ->
           {Ok("Div", [destination |-> Register(raw_.a), lhs |-> RegisterOrConstant(raw_.b), rhs |-> RegisterOrConstant(raw_.c)])}
    [] raw_.op = "Modulo" /\ raw_.layout = "ABC" ->
           {Ok("Mod", [destination |-> Register(raw_.a), lhs |-> RegisterOrConstant(raw_.b), rhs |-> RegisterOrConstant(raw_.c)])}
    [] raw_.op = "Power" /\ raw_.layout = "ABC" ->
           {Ok("Pow", [destination |-> Register(raw_.a), lhs |-> RegisterOrConstant(raw_.b), rhs |-> RegisterOrConstant(raw_.c)])}
    [] raw_.op = "Minus" /\ raw_.layout = "ABC" ->
           {Ok("Minus", [destination |-> Register(raw_.a), operand |-> Register(AsU8(raw_.b))])}
    [] raw_.op = "Not" /\ raw_.layout = "ABC" ->
           {Ok("Not", [destination |-> Register(raw_.a), operand |-> Register(AsU8(raw_.b))])}
    [] raw_.op = "Length" /\ raw_.layout = "ABC" ->
           {Ok("Length", [destination |-> Register(raw_.a), operand |-> Register(AsU8(raw_.b))])}
    [] raw_.op = "Concatenate" /\ raw_.layout = "ABC" ->
           {Ok("Concatenate", [destination |-> Register(raw_.a), operands |-> RegistersAsU8(raw_.b, raw_.c)])}
    [] raw_.op = "Jump" /\ raw_.layout = "AsBx" ->
           {Ok("Jump", [step |-> raw_.sbx])}
    [] raw_.op = "Equal" /\ raw_.layout = "ABC" ->
           {Ok("Equal", [lhs |-> RegisterOrConstant(raw_.b), rhs |-> RegisterOrConstant(raw_.c), comparison_value |-> raw_.a = 1])}
    [] raw_.op = "LessThan" /\ raw_.layout = "ABC" ->
           {Ok("LessThan", [lhs |-> RegisterOrConstant(raw_.b), rhs |-> RegisterOrConstant(raw_.c), comparison_value |-> raw_.a = 1])}
    [] raw_.op = "LessThanOrEqual" /\ raw_.layout = "ABC" ->
           {Ok("LessThanOrEqual", [lhs |-> RegisterOrConstant(raw_.b), rhs |-> RegisterOrConstant(raw_.c), comparison_value |-> raw_.a = 1])}
    [] raw_.op = "Test" /\ raw_.layout = "ABC" ->
           {Ok("Test", [value |-> Register(raw_.a), comparison_value |-> raw_.c = 1])}
    [] raw_.op = "TestSet" /\ raw_.layout = "ABC" ->
           {Ok("TestSet", [destination |-> Register(raw_.a), value |-> Register(AsU8(raw_.b)), comparison_value |-> raw_.c = 1])}
    [] raw_.op = "Call" /\ raw_.layout = "ABC" ->
           {Ok("Call", [function |-> Register(raw_.a), arguments |-> AsU8(raw_.b), return_values |-> AsU8(raw_.c)])}
    [] raw_.op = "TailCall" /\ raw_.layout = "ABC" ->
           {Ok("TailCall", [function |-> Register(raw_.a), arguments |-> AsU8(raw_.b)])}
    [] raw_.op = "Return" /\ raw_.layout = "ABC" ->
           {Ok("Return", [first |-> Register(raw_.a), count |-> AsU8(raw_.b)])}
    [] raw_.op = "IterateNumericForLoop" /\ raw_.layout = "AsBx" ->
           ControlRange("IterateNumericForLoop", raw_.a, raw_.sbx)
    [] raw_.op = "PrepareNumericForLoop" /\ raw_.layout = "AsBx" ->
           ControlRange("PrepareNumericForLoop", raw_.a, raw_.sbx)
    [] raw_.op = "IterateGenericForLoop" /\ raw_.layout = "ABC" ->
           {Ok("IterateGenericForLoop", [iterator |-> Register(raw_.a), number_of_variables |-> AsU8(raw_.c)])}
    [] raw_.op = "SetList" /\ raw_.layout = "ABC" ->
           {Ok("SetList", [table |-> Register(raw_.a), number_of_elements |-> AsU8(raw_.b), block_number |-> AsU8(raw_.c)])}
    [] raw_.op = "Close" /\ raw_.layout = "ABC" ->
           {Ok("Close", [first |-> Register(raw_.a)])}
    [] raw_.op = "Closure" /\ raw_.layout = "ABx" ->
           {Ok("Closure", [destination |-> Register(raw_.a), function |-> FunctionIndex(raw_.bx)])}
    [] raw_.op = "VarArg" /\ raw_.layout = "ABC" ->
           {Ok("VarArg", [first |-> Register(raw_.a), count |-> AsU8(raw_.b)])}
    [] OTHER -> {Failure}

\* a call of Instruction::parse: RawInstruction::parse has decoded the
\* operation code and its arguments
InitParse ==
    /\ \E i \in DOMAIN OperationCodes : \E layout \in {"ABC", "ABx", "AsBx"} :
          \E a \in FieldA :
             \/ /\ layout = "ABC"
                /\ \E b \in FieldBC : \E c \in FieldBC :
                      raw = RawInstruction(OperationCodes[i], layout, a, b, c, 0, 0)
             \/ /\ layout = "ABx"
                /\ \E bx \in FieldBx :
                      raw = RawInstruction(OperationCodes[i], layout, a, 0, 0, bx, 0)
             \/ /\ layout = "AsBx"
                /\ \E sbx \in FieldSBx :
                      raw = RawInstruction(OperationCodes[i], layout, a, 0, 0, 0, sbx)
    /\ pc = "parse"
    /\ result = Unused
    /\ open = Unused
    /\ old_locals = Unused
    /\ function = Unused
    /\ stack = Unused
    /\ visited = Unused
    /\ ConstructUnused
    /\ graph = Unused
    /\ blocks = Unused
    /\ root = Unused
    /\ loop_headers = Unused
    /\ dominators = Unused
    /\ dfs_postorder = Unused
    /\ changed = Unused
    /\ tried = Unused
    /\ sweeps = Unused
    /\ post_dom_tree = Unused
    /\ loop_exits = Unused
    /\ stops = Unused
    /\ links = Unused

\* mod.rs:186-372: Instruction::parse returns
Parse ==
    /\ pc = "parse"
    /\ result' \in parse(raw)
    /\ pc' = "parsed"
    /\ UNCHANGED <<raw, open, old_locals, function, stack, visited,
                   construct_vars, graph, blocks, root, loop_headers, dominators,
                   dfs_postorder, changed, tried, sweeps, post_dom_tree,
                   loop_exits, stops, links>>

NextParse == Parse

SpecParse == InitParse /\ [][NextParse]_vars

\* the RawInstruction is one of the 38 operation codes in its own layout
InStandardLayout == raw.layout = StandardLayout(raw.op)

\* C23: Instruction::parse succeeds for each of the 38 operation codes in
\* its standard layout, SetUpvalue included, and yields the variant of that
\* operation code; it returns a Failure, and never panics, only for an
\* operation code in another layout.
C23_EveryOpcodeParses ==
    pc = "parsed" =>
        /\ result.status # "Panic"
        /\ IF InStandardLayout
           THEN result.status = "Ok" /\ result.variant = VariantOf(raw.op)
           ELSE result.status = "Failure"

\* C27: for every A in 0..255, parsing a ForLoop or ForPrep computes the
\* control registers A..=A+4 without overflow of the 8-bit register: five
\* consecutive registers, each in 0..255.
C27_ForLoopControlRegisters ==
    (/\ pc = "parsed"
     /\ raw.op \in {"IterateNumericForLoop", "PrepareNumericForLoop"}
     /\ InStandardLayout) =>
        /\ result.status = "Ok"
        /\ Len(result.fields.control) = 5
        /\ \A i \in 1..5 :
              /\ result.fields.control[i] = Register(raw.a + i - 1)
              /\ result.fields.control[i].n \in 0..255

\* ------------------------------------------- the pruning loop terminates
\* the number of phis of the function
PhiCount(blks) == Cardinality(PhiLocations(blks))

\* the number of phis that phi insertion has placed
InsertedPhis ==
    Cardinality(UNION {{<<value, n>> : n \in value_to_nodes_with_phi[value]} :
                          value \in DOMAIN value_to_nodes_with_phi})

\* C24: the pruning loop of construct terminates: an iteration never adds a
\* phi, an iteration that does not leave the loop removes at least one, and
\* so the iterations that do not leave the loop, together with the phis
\* still there, never outnumber the phis that insertion placed (the loop runs
\* at most that many iterations and the one that leaves it).
C24_PruningLoopTerminates ==
    /\ [][pc = "prune" =>
            /\ PhiCount(blocks') <= PhiCount(blocks)
            /\ (pc' = "prune" => /\ passes' = passes + 1
                                 /\ PhiCount(blocks') < PhiCount(blocks))]_vars
    /\ [](pc \in {"prune", "elide", "done"} =>
            passes + PhiCount(blocks) <= InsertedPhis)

\* the loop has left after two iterations that removed phis
C24_Witness ==
    /\ pc = "elide"
    /\ passes >= 2

\* C25: in Lifter::lift no node is popped from the stack twice: the
\* assertion that the popped node has not been visited (lifter.rs:197) never
\* fails, whatever the graph.
C25_NoNodePoppedTwice ==
    ~(pc = "panicked" /\ result.line = 197)

====
